---- MODULE Spec2Model ----
(***************************************************************************)
(* A model of the card-set scripts of jphd3v/anycard (src/scripts).        *)
(*                                                                         *)
(* Each script is a linear pipeline; each gets a specification of its own  *)
(* over the shared variables:                                              *)
(*   SpecParse    repeated calls of parse_filename (Atlasnye classifier)   *)
(*   SpecAtlas    main() of download_atlasnye_cardset.py                   *)
(*   SpecExtract  main() of extract_htdebeer_cardset.py                    *)
(*   SpecValidate the body of validate_svgs.py                             *)
(*   SpecCompose  process_downloaded_svg of the back/joker compositor      *)
(*                                                                         *)
(* Text is modelled as a sequence of one-character strings, so that        *)
(* lower-casing, URL-decoding, substring search and the regex word         *)
(* boundary are computed rather than assumed.  Floating-point values are   *)
(* modelled as exact rationals [n, d]; rounding is not modelled.           *)
(***************************************************************************)
EXTENDS Integers, Sequences, FiniteSets, TLC

VARIABLES
    \* ---- download_atlasnye_cardset.py
    back_counter,     \* global back_counter
    joker_counter,    \* global joker_counter
    filename,         \* argument of the last parse_filename call
    target_name,      \* what that call returned
    backs_seen,       \* history: number of calls whose name had a back keyword
    backs_returned,   \* history: the back identifiers returned, in order
    jokers_seen,      \* history: number of calls classified as joker
    file_links,       \* main(): the sorted, de-duplicated link list
    link_idx,         \* main(): index of the next link of the for loop
    processed_files,  \* main(): the processed_files set
    fetched,          \* history: sequence of [link, name, ok] download_file calls
    atlas_pc,         \* main(): "scan" | "loop" | "done" | "crashed"
    \* ---- extract_htdebeer_cardset.py
    ex_pc,            \* main(): position
    ex_exit,          \* process exit code, None while running
    ex_fs,            \* filesystem: [out_dir, input, files]
    ex_fs0,           \* history: the filesystem when the script started
    ex_source,        \* the parsed sprite sheet
    ex_todo,          \* targets not yet visited by the loop
    ex_log,           \* history: steps taken (download attempts, errors, saves)
    \* ---- validate_svgs.py
    va_pc,            \* position
    va_in,            \* inputs: [is_dir, svgcheck, files]
    va_idx,           \* index of the next file of the for loop
    va_failed,        \* the failed flag
    va_lines,         \* printed pass/fail lines
    va_exit,          \* process exit code, None while running
    \* ---- generate_back_and_jokers_for_digitaldesignlabs.py
    co_pc,            \* "ready" | "skipped" | "done" | "ValueError" | "ZeroDivisionError"
    co_in,            \* inputs of process_downloaded_svg
    co_out,           \* what it computed
    \* ---- the fetches of the five scripts that use the network
    fe_script,        \* which script runs
    fe_cfg,           \* its configured URL and its items
    fe_pc,            \* "start" | "items" | "finished" | "returned" | "raised"
    fe_idx,           \* index of the next item
    fe_opened,        \* history: the URLs passed to urllib.request.urlopen
    fe_log,           \* history: one [url, result, handling] per fetch attempted
    \* ---- main() of the two digitaldesignlabs scripts, item by item
    rn_script,        \* "generate" | "digitaldesignlabs"
    rn_pc,            \* "loop" | "jokers" | "done" | "raised"
    rn_idx,           \* index of the next item of the loop
    rn_fs,            \* filesystem: [dirs, files], files maps [dir, name] to a document
    rn_log,           \* history: one [item, kind, outcome] per item visited
    \* ---- download_brescia_cardset.py, DeckTableParser
    parser,           \* the DeckTableParser object, None before construction
    tb_pc,            \* "idle" | "feeding" | "raised"
    tb_seen           \* history: what the events fed so far amount to

vars == <<back_counter, joker_counter, filename, target_name, backs_seen, backs_returned,
          jokers_seen, file_links, link_idx, processed_files, fetched, atlas_pc,
          ex_pc, ex_exit, ex_fs, ex_fs0, ex_source, ex_todo, ex_log,
          va_pc, va_in, va_idx, va_failed, va_lines, va_exit,
          co_pc, co_in, co_out,
          fe_script, fe_cfg, fe_pc, fe_idx, fe_opened, fe_log,
          rn_script, rn_pc, rn_idx, rn_fs, rn_log,
          parser, tb_pc, tb_seen>>

atlasVars == <<back_counter, joker_counter, filename, target_name, backs_seen, backs_returned,
               jokers_seen, file_links, link_idx, processed_files, fetched, atlas_pc>>
extractVars == <<ex_pc, ex_exit, ex_fs, ex_fs0, ex_source, ex_todo, ex_log>>
validateVars == <<va_pc, va_in, va_idx, va_failed, va_lines, va_exit>>
composeVars == <<co_pc, co_in, co_out>>
fetchVars == <<fe_script, fe_cfg, fe_pc, fe_idx, fe_opened, fe_log>>
runVars == <<rn_script, rn_pc, rn_idx, rn_fs, rn_log>>
tableVars == <<parser, tb_pc, tb_seen>>

\* Python's None
None == "None"

\* the value of filename while no call is outstanding (no filename is empty)
NoFile == <<>>

(***************************************************************************)
(* Text                                                                    *)
(***************************************************************************)

\* The printable ASCII characters in code-point order, 0x20 .. 0x7e (0x60, the
\* grave accent, cannot be written in a string here and is spelled "<grave>").
ASCII ==
    <<" ", "!", "\"", "#", "$", "%", "&", "'", "(", ")", "*", "+", ",", "-", ".", "/",
      "0", "1", "2", "3", "4", "5", "6", "7", "8", "9", ":", ";", "<", "=", ">", "?">>
    \o <<"@", "A", "B", "C", "D", "E", "F", "G", "H", "I", "J", "K", "L", "M", "N", "O",
         "P", "Q", "R", "S", "T", "U", "V", "W", "X", "Y", "Z", "[", "\\", "]", "^", "_">>
    \o <<"<grave>", "a", "b", "c", "d", "e", "f", "g", "h", "i", "j", "k", "l", "m", "n", "o",
         "p", "q", "r", "s", "t", "u", "v", "w", "x", "y", "z", "{", "|", "}", "~">>

\* ord(c) of a printable ASCII character
Ord(c) == 31 + CHOOSE i \in 1..Len(ASCII) : ASCII[i] = c

\* chr(n); a byte outside printable ASCII decodes to the replacement marker
Replacement == "<?>"
Chr(n) == IF n >= 32 /\ n <= 126 THEN ASCII[n - 31] ELSE Replacement

IsDigit(c) == c \in {"0", "1", "2", "3", "4", "5", "6", "7", "8", "9"}
IsUpper(c) == c \in {ASCII[i] : i \in 34..59}
IsLowerAlpha(c) == c \in {ASCII[i] : i \in 66..91}

\* the regex class \w on ASCII text
IsWordChar(c) == IsDigit(c) \/ IsUpper(c) \/ IsLowerAlpha(c) \/ c = "_"

\* str.lower(), one character
LowerChar(c) == IF IsUpper(c) THEN Chr(Ord(c) + 32) ELSE c

\* str.lower()
lower(s) == [i \in 1..Len(s) |-> LowerChar(s[i])]

IsHex(c) == IsDigit(c) \/ c \in {"a", "b", "c", "d", "e", "f", "A", "B", "C", "D", "E", "F"}
HexVal(c) ==
    IF IsDigit(c) THEN Ord(c) - 48
    ELSE IF IsUpper(c) THEN Ord(c) - 55
    ELSE Ord(c) - 87

\* urllib.parse.unquote: every %XY with two hex digits becomes the character
\* with that code; any other "%" is kept.
RECURSIVE unquoteFrom(_, _)
unquoteFrom(s, i) ==
    IF i > Len(s) THEN <<>>
    ELSE IF s[i] = "%" /\ i + 2 <= Len(s) /\ IsHex(s[i + 1]) /\ IsHex(s[i + 2])
         THEN <<Chr(16 * HexVal(s[i + 1]) + HexVal(s[i + 2]))>> \o unquoteFrom(s, i + 3)
         ELSE <<s[i]>> \o unquoteFrom(s, i + 1)

unquote(s) == unquoteFrom(s, 1)

\* (kw in name), equally re.search of a literal
Contains(name, kw) ==
    \E i \in 1..(Len(name) - Len(kw) + 1) : SubSeq(name, i, i + Len(kw) - 1) = kw

\* re.search(kw + r'\b', name) for a literal kw ending in a word character
ContainsAtBoundary(name, kw) ==
    \E i \in 1..(Len(name) - Len(kw) + 1) :
        /\ SubSeq(name, i, i + Len(kw) - 1) = kw
        /\ (i + Len(kw) > Len(name) \/ ~IsWordChar(name[i + Len(kw)]))

\* re.search of an alternation: plain literals, and literals followed by \b
Search(pattern, name) ==
    \/ \E kw \in pattern.plain : Contains(name, kw)
    \/ \E kw \in pattern.bounded : ContainsAtBoundary(name, kw)

(***************************************************************************)
(* download_atlasnye_cardset.py: the filename classifier                   *)
(***************************************************************************)

\* SUITS_REGEX, in the dict's insertion order
SUITS_REGEX == <<
    [code |-> "H", pattern |-> [plain |-> {<<"h", "e", "a", "r", "t">>, <<"c", "h", "e", "r", "v", "i">>, <<"w", "o", "r", "m">>}, bounded |-> {}]],
    [code |-> "D", pattern |-> [plain |-> {<<"d", "i", "a", "m", "o", "n", "d">>, <<"b", "u", "b", "n">>}, bounded |-> {}]],
    [code |-> "C", pattern |-> [plain |-> {<<"c", "l", "u", "b">>, <<"t", "r", "e", "f">>}, bounded |-> {}]],
    [code |-> "S", pattern |-> [plain |-> {<<"s", "p", "a", "d", "e">>, <<"p", "i", "k">>}, bounded |-> {}]]>>

\* RANKS_REGEX, in the dict's insertion order; the Ace pattern ends in 1\b
RANKS_REGEX == <<
    [code |-> "A", pattern |-> [plain |-> {<<"a", "c", "e">>, <<"t", "u", "z">>}, bounded |-> {<<"1">>}]],
    [code |-> "K", pattern |-> [plain |-> {<<"k", "i", "n", "g">>, <<"k", "o", "r", "o", "l">>}, bounded |-> {}]],
    [code |-> "Q", pattern |-> [plain |-> {<<"q", "u", "e", "e", "n">>, <<"d", "a", "m", "a">>}, bounded |-> {}]],
    [code |-> "J", pattern |-> [plain |-> {<<"j", "a", "c", "k">>, <<"k", "n", "a", "v", "e">>, <<"v", "a", "l", "e", "t">>}, bounded |-> {}]],
    [code |-> "T", pattern |-> [plain |-> {<<"1", "0">>}, bounded |-> {}]],
    [code |-> "9", pattern |-> [plain |-> {<<"9">>}, bounded |-> {}]],
    [code |-> "8", pattern |-> [plain |-> {<<"8">>}, bounded |-> {}]],
    [code |-> "7", pattern |-> [plain |-> {<<"7">>}, bounded |-> {}]],
    [code |-> "6", pattern |-> [plain |-> {<<"6">>}, bounded |-> {}]],
    [code |-> "5", pattern |-> [plain |-> {<<"5">>}, bounded |-> {}]],
    [code |-> "4", pattern |-> [plain |-> {<<"4">>}, bounded |-> {}]],
    [code |-> "3", pattern |-> [plain |-> {<<"3">>}, bounded |-> {}]],
    [code |-> "2", pattern |-> [plain |-> {<<"2">>}, bounded |-> {}]]>>

BACK_KEYWORDS == {<<"b", "a", "c", "k">>, <<"r", "u", "b", "a", "s", "h", "k", "a">>, <<"d", "o", "r", "s", "o">>}
JOKER_KEYWORDS == {<<"j", "o", "k", "e", "r">>, <<"j", "o", "l", "l", "y">>}

\* for code, pattern in TABLE.items(): if re.search(pattern, name): found = code; break
RECURSIVE FirstMatchFrom(_, _, _)
FirstMatchFrom(table, i, name) ==
    IF i > Len(table) THEN None
    ELSE IF Search(table[i].pattern, name) THEN table[i].code
    ELSE FirstMatchFrom(table, i + 1, name)

FirstMatch(table, name) == FirstMatchFrom(table, 1, name)

\* The part of parse_filename that reads no counter: the normalised name, the
\* two keyword tests, and the two table scans.
Classify(fn) ==
    LET name == unquote(lower(fn))
    IN  [name |-> name,
         is_back |-> \E kw \in BACK_KEYWORDS : Contains(name, kw),
         is_joker |-> \E kw \in JOKER_KEYWORDS : Contains(name, kw),
         found_suit |-> FirstMatch(SUITS_REGEX, name),
         found_rank |-> FirstMatch(RANKS_REGEX, name)]

(***************************************************************************)
(* Filenames the classifier is called with                                 *)
(***************************************************************************)

\* at most this many vocabulary parts per generated filename
MaxParts == 3
\* joker_counter is unbounded in the code; calls stop being made at this value
MaxJokers == 3
\* at most this many filenames with a back keyword are passed in one run
MaxBackCalls == 4

DotSvg == <<".", "s", "v", "g">>

Parts == {<<"h", "e", "a", "r", "t">>, <<"s", "p", "a", "d", "e">>, <<"k", "i", "n", "g">>, <<"a", "c", "e">>, <<"1">>, <<"0">>, <<"9">>, <<"_">>, <<"b", "a", "c", "k">>, <<"j", "o", "k", "e", "r">>}

RECURSIVE NamesOf(_)
NamesOf(k) ==
    IF k = 0 THEN {<<>>}
    ELSE LET shorter == NamesOf(k - 1)
         IN  shorter \cup {n \o p : n \in shorter, p \in Parts}

ExampleNames == {
    <<"A", "t", "l", "a", "s", "_", "d", "e", "c", "k", "_", "K", "i", "n", "g", "_", "o", "f", "_", "H", "e", "a", "r", "t", "s", ".", "s", "v", "g">>,
    <<"h", "e", "a", "r", "t", "s", "_", "1", "0", "0", ".", "s", "v", "g">>,
    <<"1", "_", "o", "f", "_", "h", "e", "a", "r", "t", "s", ".", "s", "v", "g">>,
    <<"C", "a", "r", "d", "%", "2", "0", "b", "a", "c", "k", "%", "2", "0", "k", "i", "n", "g", "%", "2", "0", "o", "f", "%", "2", "0", "h", "e", "a", "r", "t", "s", ".", "s", "v", "g">>,
    <<"J", "o", "k", "e", "r", "%", "2", "0", "o", "f", "%", "2", "0", "s", "p", "a", "d", "e", "s", "%", "2", "0", "1", "0", ".", "s", "v", "g">>,
    <<"%", "4", "B", "i", "n", "g", "_", "o", "f", "_", "h", "e", "a", "r", "t", "s", ".", "s", "v", "g">>,
    <<"A", "c", "e", "_", "o", "f", "_", "S", "p", "a", "d", "e", "s", "_", "a", "n", "d", "_", "H", "e", "a", "r", "t", "s", ".", "s", "v", "g">>}

Filenames == {n \o DotSvg : n \in NamesOf(MaxParts)} \cup ExampleNames

\* the filenames the category page of the model may list
LinkNames == {
    <<"A", "t", "l", "a", "s", "_", "d", "e", "c", "k", "_", "K", "i", "n", "g", "_", "o", "f", "_", "H", "e", "a", "r", "t", "s", ".", "s", "v", "g">>,
    <<"A", "t", "l", "a", "s", "_", "d", "e", "c", "k", "_", "k", "i", "n", "g", "_", "o", "f", "_", "h", "e", "a", "r", "t", "s", "_", "v", "2", ".", "s", "v", "g">>,
    <<"A", "t", "l", "a", "s", "_", "d", "e", "c", "k", "_", "b", "a", "c", "k", "_", "b", "l", "u", "e", ".", "s", "v", "g">>,
    <<"A", "t", "l", "a", "s", "_", "d", "e", "c", "k", "_", "b", "a", "c", "k", "_", "r", "e", "d", ".", "s", "v", "g">>,
    <<"A", "t", "l", "a", "s", "_", "d", "e", "c", "k", "_", "r", "u", "b", "a", "s", "h", "k", "a", ".", "s", "v", "g">>,
    <<"A", "t", "l", "a", "s", "_", "d", "e", "c", "k", "_", "j", "o", "k", "e", "r", "_", "b", "l", "a", "c", "k", ".", "s", "v", "g">>,
    <<"A", "t", "l", "a", "s", "_", "d", "e", "c", "k", "_", "j", "o", "k", "e", "r", "_", "r", "e", "d", ".", "s", "v", "g">>,
    <<"A", "t", "l", "a", "s", "_", "d", "e", "c", "k", "_", "h", "e", "a", "r", "t", "s", ".", "s", "v", "g">>,
    <<"A", "t", "l", "a", "s", "_", "d", "e", "c", "k", "_", "q", "u", "e", "e", "n", ".", "s", "v", "g">>,
    <<"A", "t", "l", "a", "s", "_", "d", "e", "c", "k", "_", "b", "o", "x", ".", "s", "v", "g">>}

\* href="/wiki/File:<name>": what re.findall returns for a listed file
LinkPrefix == <<"/", "w", "i", "k", "i", "/", "F", "i", "l", "e", ":">>
LinkOf(name) == LinkPrefix \o name

\* Classify, tabulated once over the filenames of the model
ClassifyMemo == [fn \in Filenames \cup LinkNames |-> Classify(fn)]

\* if back_counter < 2
BackSlotFree_AllowsThird(bc) == bc <= 2
BackSlotFree(bc) == bc < 2

\* joker_counter += 1
NextJoker_NoIncrement(jc) == jc
NextJoker(jc) == jc + 1

\* if found_suit and found_rank
BothFound_Either(found_suit, found_rank) == found_suit # None \/ found_rank # None
BothFound(found_suit, found_rank) == found_suit # None /\ found_rank # None

\* parse_filename(filename) with the globals back_counter = bc and
\* joker_counter = jc: the value returned and the globals afterwards
parse_filename(fn, bc, jc) ==
    LET c == ClassifyMemo[fn]
    IN  IF c.is_back
        THEN IF BackSlotFree(bc)
             THEN [ret |-> ToString(bc + 1) \o "B.svg",
                   back_counter |-> bc + 1, joker_counter |-> jc]
             ELSE [ret |-> None, back_counter |-> bc, joker_counter |-> jc]
        ELSE IF c.is_joker
        THEN [ret |-> ToString(NextJoker(jc)) \o "J.svg",
              back_counter |-> bc, joker_counter |-> NextJoker(jc)]
        ELSE IF BothFound(c.found_suit, c.found_rank)
        THEN [ret |-> c.found_rank \o c.found_suit \o ".svg",
              back_counter |-> bc, joker_counter |-> jc]
        ELSE [ret |-> None, back_counter |-> bc, joker_counter |-> jc]

\* whether a call would take the joker branch
TakesJokerBranch(fn) == ~ClassifyMemo[fn].is_back /\ ClassifyMemo[fn].is_joker

\* the calls the model makes: the history counters stay within the bounds
CallAllowed(fn) ==
    /\ TakesJokerBranch(fn) => joker_counter < MaxJokers
    /\ ClassifyMemo[fn].is_back => backs_seen < MaxBackCalls

\* the history variables after a call that returned ret
NoteReturn(fn, ret) ==
    /\ backs_seen' = IF ClassifyMemo[fn].is_back THEN backs_seen + 1 ELSE backs_seen
    /\ backs_returned' = IF ClassifyMemo[fn].is_back /\ ret # None
                         THEN Append(backs_returned, ret) ELSE backs_returned
    /\ jokers_seen' = IF TakesJokerBranch(fn) THEN jokers_seen + 1 ELSE jokers_seen

(***************************************************************************)
(* SpecParse: any sequence of parse_filename calls in one run              *)
(***************************************************************************)

AtlasIdle ==
    /\ back_counter = 0
    /\ joker_counter = 0
    /\ filename = NoFile
    /\ target_name = None
    /\ backs_seen = 0
    /\ backs_returned = <<>>
    /\ jokers_seen = 0
    /\ file_links = <<>>
    /\ link_idx = 1
    /\ processed_files = {}
    /\ fetched = <<>>
    /\ atlas_pc = "idle"

ExtractIdle ==
    /\ ex_pc = "idle"
    /\ ex_exit = None
    /\ ex_fs = None
    /\ ex_fs0 = None
    /\ ex_source = None
    /\ ex_todo = <<>>
    /\ ex_log = <<>>

ValidateIdle ==
    /\ va_pc = "idle"
    /\ va_in = None
    /\ va_idx = 1
    /\ va_failed = FALSE
    /\ va_lines = <<>>
    /\ va_exit = None

ComposeIdle ==
    /\ co_pc = "idle"
    /\ co_in = None
    /\ co_out = None

RunIdle ==
    /\ rn_script = None
    /\ rn_pc = "idle"
    /\ rn_idx = 1
    /\ rn_fs = None
    /\ rn_log = <<>>

TableIdle ==
    /\ parser = None
    /\ tb_pc = "idle"
    /\ tb_seen = None

FetchIdle ==
    /\ fe_script = None
    /\ fe_cfg = None
    /\ fe_pc = "idle"
    /\ fe_idx = 1
    /\ fe_opened = <<>>
    /\ fe_log = <<>>

InitParse == AtlasIdle /\ ExtractIdle /\ ValidateIdle /\ ComposeIdle /\ FetchIdle /\ RunIdle /\ TableIdle

\* a caller passes a filename to parse_filename and receives its result
ParseCall ==
    /\ filename = NoFile
    /\ \E fn \in Filenames :
        /\ CallAllowed(fn)
        /\ LET r == parse_filename(fn, back_counter, joker_counter)
           IN  /\ filename' = fn
               /\ target_name' = r.ret
               /\ back_counter' = r.back_counter
               /\ joker_counter' = r.joker_counter
               /\ NoteReturn(fn, r.ret)
    /\ UNCHANGED <<file_links, link_idx, processed_files, fetched, atlas_pc>>
    /\ UNCHANGED <<extractVars, validateVars, composeVars, fetchVars, runVars, tableVars>>

\* the caller is done with the result; only the globals outlive the call
ParseReturn ==
    /\ filename # NoFile
    /\ filename' = NoFile
    /\ target_name' = None
    /\ UNCHANGED <<back_counter, joker_counter, backs_seen, backs_returned, jokers_seen>>
    /\ UNCHANGED <<file_links, link_idx, processed_files, fetched, atlas_pc>>
    /\ UNCHANGED <<extractVars, validateVars, composeVars, fetchVars, runVars, tableVars>>

NextParse == ParseCall \/ ParseReturn

SpecParse == InitParse /\ [][NextParse]_vars

(***************************************************************************)
(* Properties of the classifier, under SpecParse                           *)
(***************************************************************************)

\* the name parse_filename looks at: lower-cased, then URL-decoded
NameOf(fn) == ClassifyMemo[fn].name

HasAny(name, kws) == \E kw \in kws : Contains(name, kw)

SUIT_KEYWORDS == UNION {SUITS_REGEX[i].pattern.plain : i \in DOMAIN SUITS_REGEX}
RANK_WORDS == {<<"a", "c", "e">>, <<"t", "u", "z">>, <<"k", "i", "n", "g">>, <<"k", "o", "r", "o", "l">>, <<"q", "u", "e", "e", "n">>, <<"d", "a", "m", "a">>, <<"j", "a", "c", "k">>, <<"k", "n", "a", "v", "e">>, <<"v", "a", "l", "e", "t">>}
SuitCodes == {SUITS_REGEX[i].code : i \in DOMAIN SUITS_REGEX}
RankCodes == {RANKS_REGEX[i].code : i \in DOMAIN RANKS_REGEX}

\* the decimal numbers that name a rank: 1 (Ace), 2 .. 9, and 10
RankNumbers == {<<"1">>, <<"2">>, <<"3">>, <<"4">>, <<"5">>, <<"6">>, <<"7">>, <<"8">>,
                <<"9">>, <<"1", "0">>}

\* num occurs in name as a number of its own, no digit on either side
Standalone(name, num) ==
    \E i \in 1..(Len(name) - Len(num) + 1) :
        /\ SubSeq(name, i, i + Len(num) - 1) = num
        /\ (i = 1 \/ ~IsDigit(name[i - 1]))
        /\ (i + Len(num) > Len(name) \/ ~IsDigit(name[i + Len(num)]))

\* code is the code of the first entry of table whose pattern matches name
IsFirstMatch(table, code, name) ==
    \E i \in DOMAIN table :
        /\ table[i].code = code
        /\ Search(table[i].pattern, name)
        /\ \A j \in 1..(i - 1) : ~Search(table[j].pattern, name)

\* a call has been made and its result is at hand
Called == filename # NoFile

\* C1 (as claimed): a filename with no back and no joker keyword that contains
\* a suit keyword and a rank keyword or rank number is returned as
\* "{rank}{suit}.svg", rank and suit being the first table entries that match.
C1_SuitAndRankGiveCard ==
    Called =>
        LET name == NameOf(filename)
        IN  (/\ ~HasAny(name, BACK_KEYWORDS)
             /\ ~HasAny(name, JOKER_KEYWORDS)
             /\ HasAny(name, SUIT_KEYWORDS)
             /\ (HasAny(name, RANK_WORDS) \/ \E num \in RankNumbers : Standalone(name, num)))
            => \E r \in RankCodes, su \in SuitCodes :
                  /\ IsFirstMatch(RANKS_REGEX, r, name)
                  /\ IsFirstMatch(SUITS_REGEX, su, name)
                  /\ target_name = r \o su \o ".svg"

\* C1: the claim's example, "Atlas_deck_King_of_Hearts.svg" gives "KH.svg"
C1_Example ==
    filename = <<"A", "t", "l", "a", "s", "_", "d", "e", "c", "k", "_", "K", "i", "n", "g", "_", "o", "f", "_", "H", "e", "a", "r", "t", "s", ".", "s", "v", "g">> => target_name = "KH.svg"

\* the text of the number a numeric rank code stands for
NumberOf(r) == IF r = "T" THEN <<"1", "0">> ELSE IF r = "A" THEN <<"1">> ELSE <<r>>

\* C2 (as claimed): a numeric rank is chosen only for a number standing on its
\* own in the name: T only for a 10, a digit d only for a d, and A, when no Ace
\* word is present, only for a 1, none of them next to another digit.
C2_NumericRankStandsAlone ==
    Called =>
        LET name == NameOf(filename)
        IN  \A r \in RankCodes \ {"K", "Q", "J"}, su \in SuitCodes :
                (/\ target_name = r \o su \o ".svg"
                 /\ r = "A" => ~HasAny(name, {<<"a", "c", "e">>, <<"t", "u", "z">>}))
                => Standalone(name, NumberOf(r))

\* C2: the claim's example, a name whose only digits are "100" is not rank T
C2_Example ==
    filename = <<"h", "e", "a", "r", "t", "s", "_", "1", "0", "0", ".", "s", "v", "g">> => target_name \notin {"T" \o su \o ".svg" : su \in SuitCodes}

\* C3: back_counter never exceeds 2; the back identifiers returned are "1B.svg"
\* then "2B.svg", each at most once; the k-th filename with a back keyword is
\* returned as "{k}B.svg" for k <= 2 and as None from the third on, whatever
\* else the filename contains.
C3_AtMostTwoBacks ==
    /\ back_counter <= 2
    /\ backs_returned \in {<<>>, <<"1B.svg">>, <<"1B.svg", "2B.svg">>}
    /\ Called =>
          /\ target_name \in {ToString(n) \o "B.svg" : n \in 0..(MaxBackCalls + 1)}
                => target_name \in {"1B.svg", "2B.svg"}
          /\ HasAny(NameOf(filename), BACK_KEYWORDS)
                => target_name = IF backs_seen >= 3 THEN None
                                 ELSE ToString(backs_seen) \o "B.svg"

\* C3 witness: a third back filename that also carries a rank and a suit keyword
\* has been rejected
C3_Witness ==
    /\ Called
    /\ backs_seen = 3
    /\ target_name = None
    /\ HasAny(NameOf(filename), BACK_KEYWORDS)
    /\ HasAny(NameOf(filename), SUIT_KEYWORDS)
    /\ HasAny(NameOf(filename), RANK_WORDS)

\* C4, one step: a call classified as joker (joker keyword, no back keyword)
\* raises joker_counter by one and returns "{k}J.svg" for the k-th such call;
\* every other step leaves joker_counter unchanged.
C4_Step ==
    IF filename = NoFile /\ filename' # NoFile
          /\ ~HasAny(NameOf(filename'), BACK_KEYWORDS)
          /\ HasAny(NameOf(filename'), JOKER_KEYWORDS)
    THEN /\ joker_counter' = joker_counter + 1
         /\ target_name' = ToString(jokers_seen') \o "J.svg"
    ELSE joker_counter' = joker_counter

\* C4: joker_counter counts the joker filenames seen, and its steps are C4_Step
C4_JokersNumberedInOrder ==
    /\ [](joker_counter = jokers_seen)
    /\ [][C4_Step]_vars

\* C4 witness: the second joker filename has been returned as "2J.svg"
C4_Witness ==
    /\ Called
    /\ jokers_seen = 2
    /\ HasAny(NameOf(filename), JOKER_KEYWORDS)
    /\ target_name = "2J.svg"

(***************************************************************************)
(* SpecAtlas: main() of download_atlasnye_cardset.py                       *)
(***************************************************************************)

\* at most this many file links on the category page
MaxLinks == 3

\* a < b for str
RECURSIVE LexLess(_, _)
LexLess(a, b) ==
    IF b = <<>> THEN FALSE
    ELSE IF a = <<>> THEN TRUE
    ELSE IF Head(a) # Head(b) THEN Ord(Head(a)) < Ord(Head(b))
    ELSE LexLess(Tail(a), Tail(b))

\* sorted(list(set(...)))
RECURSIVE Sorted(_)
Sorted(S) ==
    IF S = {} THEN <<>>
    ELSE LET m == CHOOSE x \in S : \A y \in S : x = y \/ LexLess(x, y)
         IN  <<m>> \o Sorted(S \ {m})

\* link.split("File:")[-1]: what follows the last "File:" of the link
RECURSIVE AfterLast(_, _)
AfterLast(link, sep) ==
    IF \E i \in 1..(Len(link) - Len(sep) + 1) : SubSeq(link, i, i + Len(sep) - 1) = sep
    THEN LET i == CHOOSE k \in 1..(Len(link) - Len(sep) + 1) :
                      SubSeq(link, k, k + Len(sep) - 1) = sep
         IN  AfterLast(SubSeq(link, i + Len(sep), Len(link)), sep)
    ELSE link

FileSep == <<"F", "i", "l", "e", ":">>

\* How one download_file call can end:
\*   "ok"          both fetches succeed, the file is written, returns True
\*   "no_link"     the file page has no upload link, returns False
\*   "page_error"  fetching the file page raises, returns False
\*   "read_error"  the output file is opened, then reading the response raises:
\*                 a truncated file is left behind, returns False
Outcomes == {"ok", "no_link", "page_error", "read_error"}

download_file(outcome) == outcome = "ok"

\* the files download_file has created in OUTPUT_DIR
AtlasFilesOnDisk == {fetched[i].name : i \in {k \in DOMAIN fetched : fetched[k].outcome \in {"ok", "read_error"}}}

\* if target_name in processed_files: continue
AlreadyProcessed_Never(name, processed) == FALSE
AlreadyProcessed(name, processed) == name \in processed

InitAtlas ==
    /\ back_counter = 0
    /\ joker_counter = 0
    /\ filename = NoFile
    /\ target_name = None
    /\ backs_seen = 0
    /\ backs_returned = <<>>
    /\ jokers_seen = 0
    /\ file_links = <<>>
    /\ link_idx = 1
    /\ processed_files = {}
    /\ fetched = <<>>
    /\ atlas_pc = "scan"
    /\ ExtractIdle /\ ValidateIdle /\ ComposeIdle /\ FetchIdle /\ RunIdle /\ TableIdle

\* html = get_html(CATEGORY_URL); file_links = sorted(list(set(re.findall(...))))
AtlasScan ==
    /\ atlas_pc = "scan"
    /\ \E S \in SUBSET LinkNames :
        /\ Cardinality(S) <= MaxLinks
        /\ file_links' = Sorted({LinkOf(n) : n \in S})
    /\ atlas_pc' = "loop"
    /\ UNCHANGED <<back_counter, joker_counter, filename, target_name, backs_seen,
                   backs_returned, jokers_seen, link_idx, processed_files, fetched>>
    /\ UNCHANGED <<extractVars, validateVars, composeVars, fetchVars, runVars, tableVars>>

\* get_html(CATEGORY_URL) raises: nothing in main() catches it
AtlasScanFails ==
    /\ atlas_pc = "scan"
    /\ atlas_pc' = "crashed"
    /\ UNCHANGED <<back_counter, joker_counter, filename, target_name, backs_seen,
                   backs_returned, jokers_seen, file_links, link_idx, processed_files,
                   fetched>>
    /\ UNCHANGED <<extractVars, validateVars, composeVars, fetchVars, runVars, tableVars>>

\* one iteration of: for link in file_links
AtlasLoopIter ==
    /\ atlas_pc = "loop"
    /\ link_idx <= Len(file_links)
    /\ LET link == file_links[link_idx]
           fn == AfterLast(link, FileSep)
           r == parse_filename(fn, back_counter, joker_counter)
       IN  /\ filename' = fn
           /\ target_name' = r.ret
           /\ back_counter' = r.back_counter
           /\ joker_counter' = r.joker_counter
           /\ NoteReturn(fn, r.ret)
           /\ IF r.ret # None /\ ~AlreadyProcessed(r.ret, processed_files)
              THEN \E outcome \in Outcomes :
                      /\ fetched' = Append(fetched, [link |-> link, name |-> r.ret,
                                                     outcome |-> outcome])
                      /\ processed_files' = IF download_file(outcome)
                                            THEN processed_files \cup {r.ret}
                                            ELSE processed_files
              ELSE UNCHANGED <<fetched, processed_files>>
    /\ link_idx' = link_idx + 1
    /\ UNCHANGED <<file_links, atlas_pc>>
    /\ UNCHANGED <<extractVars, validateVars, composeVars, fetchVars, runVars, tableVars>>

\* the loop is over: the summary is printed and main() returns
AtlasFinish ==
    /\ atlas_pc = "loop"
    /\ link_idx > Len(file_links)
    /\ atlas_pc' = "done"
    /\ UNCHANGED <<back_counter, joker_counter, filename, target_name, backs_seen,
                   backs_returned, jokers_seen, file_links, link_idx, processed_files,
                   fetched>>
    /\ UNCHANGED <<extractVars, validateVars, composeVars, fetchVars, runVars, tableVars>>

NextAtlas == AtlasScan \/ AtlasScanFails \/ AtlasLoopIter \/ AtlasFinish

SpecAtlas == InitAtlas /\ [][NextAtlas]_vars

\* some entry of the table matches name
SomeMatch(table, name) == \E i \in DOMAIN table : Search(table[i].pattern, name)

\* the link the last loop iteration handled was rejected for want of a suit or a rank
RejectedName(fn) ==
    LET name == NameOf(fn)
    IN  /\ ~HasAny(name, BACK_KEYWORDS)
        /\ ~HasAny(name, JOKER_KEYWORDS)
        /\ ~(SomeMatch(SUITS_REGEX, name) /\ SomeMatch(RANKS_REGEX, name))

\* C5: a loop iteration over a filename with no back or joker keyword that lacks
\* a suit match, a rank match, or both, gets None from parse_filename, leaves
\* both counters unchanged, fetches nothing and adds nothing to processed_files.
C5_Step ==
    (/\ atlas_pc = "loop"
     /\ link_idx' = link_idx + 1
     /\ RejectedName(AfterLast(file_links[link_idx], FileSep)))
    => /\ filename' = AfterLast(file_links[link_idx], FileSep)
       /\ target_name' = None
       /\ back_counter' = back_counter
       /\ joker_counter' = joker_counter
       /\ fetched' = fetched
       /\ processed_files' = processed_files

C5_NoSuitOrNoRankRejected == [][C5_Step]_vars

\* C5 witness: after a card was collected, a filename with a suit but no rank
\* has been passed over
C5_Witness ==
    /\ atlas_pc = "loop"
    /\ Called
    /\ processed_files # {}
    /\ SomeMatch(SUITS_REGEX, NameOf(filename))
    /\ ~SomeMatch(RANKS_REGEX, NameOf(filename))
    /\ ~HasAny(NameOf(filename), BACK_KEYWORDS \cup JOKER_KEYWORDS)
    /\ target_name = None

(***************************************************************************)
(* SpecExtract: main() of extract_htdebeer_cardset.py                      *)
(***************************************************************************)

\* SUITS and RANKS, output code and internal name, in the dicts' insertion order
SUITS == <<[out |-> "D", in |-> "diamond"], [out |-> "H", in |-> "heart"],
           [out |-> "S", in |-> "spade"], [out |-> "C", in |-> "club"]>>

RANKS == <<[out |-> "A", in |-> "1"], [out |-> "2", in |-> "2"], [out |-> "3", in |-> "3"],
           [out |-> "4", in |-> "4"], [out |-> "5", in |-> "5"], [out |-> "6", in |-> "6"],
           [out |-> "7", in |-> "7"], [out |-> "8", in |-> "8"], [out |-> "9", in |-> "9"],
           [out |-> "T", in |-> "10"], [out |-> "J", in |-> "jack"],
           [out |-> "Q", in |-> "queen"], [out |-> "K", in |-> "king"]>>

SPECIALS == <<[out |-> "1B", in |-> "back"], [out |-> "1J", in |-> "joker_red"],
              [out |-> "2J", in |-> "joker_black"]>>

\* main(), step 4: the target list, filename and internal id, in dict order
Targets ==
    [i \in 1..(Len(RANKS) * Len(SUITS)) |->
        LET rank == RANKS[((i - 1) \div Len(SUITS)) + 1]
            suit == SUITS[((i - 1) % Len(SUITS)) + 1]
        IN  [filename |-> rank.out \o suit.out \o ".svg",
             target_id |-> suit.in \o "_" \o rank.in]]
    \o [i \in 1..Len(SPECIALS) |->
        [filename |-> SPECIALS[i].out \o ".svg", target_id |-> SPECIALS[i].in]]

\* The ids the sprite sheets of the model may carry, in document order.  The
\* last one is no target of the script.
SheetKeys == <<"diamond_1", "heart_king", "back", "logo">>

Element(id, display) == [id |-> id, display |-> display, children |-> <<>>]

\* the elements with the ids of S, in document order
ElementsOf(S, display) ==
    LET keys == SelectSeq(SheetKeys, LAMBDA k : k \in S)
    IN  [i \in 1..Len(keys) |-> Element(keys[i], display)]

\* The sprite sheets: what root.find("defs") gives, as a sequence that is empty
\* (None) or holds the <defs> block with its own id and its child elements; and
\* the root's other children.
Sheets ==
    {[defs |-> d, outside |-> ElementsOf(O, None)] :
        d \in {<<>>} \cup {<<[id |-> di, display |-> None, children |-> ElementsOf(D, disp)]>> :
                              di \in {None, "back"}, D \in SUBSET {SheetKeys[i] : i \in 1..3},
                              disp \in {None, "none"}},
        O \in SUBSET {SheetKeys[i] : i \in 2..4}}

\* the files of a directory that held cards before the script ran
OldDoc == [attrib |-> "old", children |-> <<>>]
EmptyDir == [f \in {} |-> OldDoc]
OldFiles == [f \in {"KH.svg"} |-> OldDoc]

\* defs_copy.iter(): the block itself, then what it contains, in document order
IterDefs(defs) == <<defs>> \o defs.children

\* for child in defs_copy.iter(): if child.attrib.get("id") == target_id:
\*     target_copy = copy.deepcopy(child); target_copy.attrib.pop("display", None); break
\* The result is a sequence, empty for None.
FindInDefs_WholeDocument(sheet, target_id) ==
    LET all == (IF sheet.defs = <<>> THEN <<>> ELSE IterDefs(sheet.defs[1])) \o sheet.outside
        hits == SelectSeq(all, LAMBDA e : e.id = target_id)
    IN  IF hits = <<>> THEN <<>> ELSE <<[hits[1] EXCEPT !.display = None]>>

FindInDefs(sheet, target_id) ==
    LET hits == SelectSeq(IterDefs(sheet.defs[1]), LAMBDA e : e.id = target_id)
    IN  IF hits = <<>> THEN <<>> ELSE <<[hits[1] EXCEPT !.display = None]>>

\* save_isolated_card(original_root, filename, target_id) on the files of
\* OUTPUT_DIR: the files afterwards and what was printed
save_isolated_card(sheet, fname, target_id, files) ==
    IF sheet.defs = <<>>
    THEN [files |-> files, printed |-> "no_defs"]
    ELSE LET target_copy == FindInDefs(sheet, target_id)
             new_root == [attrib |-> "root", children |-> sheet.defs \o target_copy]
         IN  IF target_copy # <<>>
             THEN [files |-> [f \in DOMAIN files \cup {fname} |->
                                 IF f = fname THEN new_root ELSE files[f]],
                   printed |-> "saved"]
             ELSE [files |-> files, printed |-> "not_found"]

\* if OUTPUT_DIR.exists()
OutputDirGuard_Missing(fs) == FALSE
OutputDirGuard(fs) == fs.out_dir

InitExtract ==
    /\ AtlasIdle /\ ValidateIdle /\ ComposeIdle /\ FetchIdle /\ RunIdle /\ TableIdle
    /\ ex_pc = "start"
    /\ ex_exit = None
    /\ ex_fs \in {[out_dir |-> o, input |-> i, files |-> f] :
                    o \in BOOLEAN, i \in {"missing", "present", "truncated"},
                    f \in {EmptyDir, OldFiles}}
    /\ ~ex_fs.out_dir => ex_fs.files = EmptyDir
    /\ ex_fs0 = ex_fs
    /\ ex_source = None
    /\ ex_todo = <<>>
    /\ ex_log = <<>>

\* step 0: the output directory exists, sys.exit(1)
ExGuardExit ==
    /\ ex_pc = "start"
    /\ OutputDirGuard(ex_fs)
    /\ ex_pc' = "exited"
    /\ ex_exit' = 1
    /\ UNCHANGED <<ex_fs, ex_fs0, ex_source, ex_todo, ex_log>>
    /\ UNCHANGED <<atlasVars, validateVars, composeVars, fetchVars, runVars, tableVars>>

\* step 1: the input file is there, or is downloaded.  The download can fail
\* before the input file is opened ("error") or after ("read_error", which
\* leaves a truncated input file); either way main() prints and returns.
ExFetchInput ==
    /\ ex_pc = "start"
    /\ ~OutputDirGuard(ex_fs)
    /\ IF ex_fs.input # "missing"
       THEN /\ ex_pc' = "mkdir"
            /\ UNCHANGED <<ex_fs, ex_log, ex_exit>>
       ELSE \E outcome \in {"ok", "error", "read_error"} :
            /\ ex_log' = Append(ex_log, [step |-> "download", outcome |-> outcome])
            /\ ex_fs' = [ex_fs EXCEPT !.input = CASE outcome = "ok" -> "present"
                                                 [] outcome = "error" -> "missing"
                                                 [] outcome = "read_error" -> "truncated"]
            /\ ex_pc' = IF outcome = "ok" THEN "mkdir" ELSE "returned"
            /\ ex_exit' = IF outcome = "ok" THEN None ELSE 0
    /\ UNCHANGED <<ex_fs0, ex_source, ex_todo>>
    /\ UNCHANGED <<atlasVars, validateVars, composeVars, fetchVars, runVars, tableVars>>

\* steps 2 to 4: mkdir, ET.parse(INPUT_FILE), the target list.  Nothing catches
\* the ParseError of a truncated input file.
ExParse ==
    /\ ex_pc = "mkdir"
    /\ ex_fs' = [ex_fs EXCEPT !.out_dir = TRUE]
    /\ IF ex_fs.input = "truncated"
       THEN /\ ex_pc' = "crashed"
            /\ ex_exit' = 1
            /\ UNCHANGED <<ex_source, ex_todo>>
       ELSE /\ \E sheet \in Sheets : ex_source' = sheet
            /\ ex_todo' = Targets
            /\ ex_pc' = "loop"
            /\ UNCHANGED ex_exit
    /\ UNCHANGED <<ex_fs0, ex_log>>
    /\ UNCHANGED <<atlasVars, validateVars, composeVars, fetchVars, runVars, tableVars>>

\* step 5, one iteration: save_isolated_card(root, filename, target_id)
ExSaveCard ==
    /\ ex_pc = "loop"
    /\ ex_todo # <<>>
    /\ LET t == Head(ex_todo)
           r == save_isolated_card(ex_source, t.filename, t.target_id, ex_fs.files)
       IN  /\ ex_fs' = [ex_fs EXCEPT !.files = r.files]
           /\ ex_log' = Append(ex_log, [step |-> r.printed, filename |-> t.filename])
    /\ ex_todo' = Tail(ex_todo)
    /\ UNCHANGED <<ex_pc, ex_exit, ex_fs0, ex_source>>
    /\ UNCHANGED <<atlasVars, validateVars, composeVars, fetchVars, runVars, tableVars>>

\* the loop is over: "Done!"
ExDone ==
    /\ ex_pc = "loop"
    /\ ex_todo = <<>>
    /\ ex_pc' = "done"
    /\ ex_exit' = 0
    /\ UNCHANGED <<ex_fs, ex_fs0, ex_source, ex_todo, ex_log>>
    /\ UNCHANGED <<atlasVars, validateVars, composeVars, fetchVars, runVars, tableVars>>

NextExtract == ExGuardExit \/ ExFetchInput \/ ExParse \/ ExSaveCard \/ ExDone

SpecExtract == InitExtract /\ [][NextExtract]_vars

(***************************************************************************)
(* Properties of the extractor, under SpecExtract                          *)
(***************************************************************************)

\* the targets the loop has visited, and what it printed for each
ExVisited ==
    IF ex_pc \in {"loop", "done"}
    THEN SubSeq(Targets, 1, Len(Targets) - Len(ex_todo))
    ELSE <<>>

ExCardLog == SelectSeq(ex_log, LAMBDA e : e.step # "download")

\* key is the id of the sheet's <defs> block or of an element inside it
KeyInDefs(sheet, key) ==
    /\ sheet.defs # <<>>
    /\ \E i \in DOMAIN IterDefs(sheet.defs[1]) : IterDefs(sheet.defs[1])[i].id = key

\* key is the id of some element of the sheet
KeyInSource(sheet, key) ==
    \/ KeyInDefs(sheet, key)
    \/ \E i \in DOMAIN sheet.outside : sheet.outside[i].id = key

\* doc holds the sheet's <defs> block and, after it, exactly one subtree, whose
\* id is key
IsIsolatedCard(doc, sheet, key) ==
    /\ Len(doc.children) = 2
    /\ doc.children[1] = sheet.defs[1]
    /\ doc.children[2].id = key

\* what the claim says of the targets visited so far, a target counting as
\* known when Known(sheet, key) holds
ExtractedExactly(Known(_, _)) ==
    LET visited == ExVisited
        log == ExCardLog
        files == ex_fs.files
    IN  /\ Len(log) = Len(visited)
        /\ ex_pc = "done" => Len(visited) = Len(Targets)
        /\ \A i \in DOMAIN visited :
              LET t == visited[i]
              IN  IF Known(ex_source, t.target_id)
                  THEN /\ t.filename \in DOMAIN files
                       /\ IsIsolatedCard(files[t.filename], ex_source, t.target_id)
                       /\ log[i] = [step |-> "saved", filename |-> t.filename]
                  ELSE /\ t.filename \notin DOMAIN files
                       /\ log[i].step \in {"not_found", "no_defs"}
                       /\ log[i].filename = t.filename

\* C6 (as claimed): every visited target whose key exists in the source has its
\* document, the <defs> block plus the one subtree with that id; every other
\* visited target has no file and an error line, the files of the others are as
\* they were written, and the loop visits every target.
C6_KnownKeyInSourceExtracted == ExtractedExactly(KeyInSource)

\* C6 (amended): the same, a key counting as known when it is the id of the
\* <defs> block or of an element inside it.
C6_KnownKeyInDefsExtracted == ExtractedExactly(KeyInDefs)

\* C6 witness: the run is over, an early target was reported missing and a later
\* one was saved
C6_Witness ==
    /\ ex_pc = "done"
    /\ ExCardLog[1].step = "not_found"
    /\ "KH.svg" \in DOMAIN ex_fs.files
    /\ IsIsolatedCard(ex_fs.files["KH.svg"], ex_source, "heart_king")
    /\ "AD.svg" \notin DOMAIN ex_fs.files

\* C10: when the output directory exists at the start, the script's only step
\* is to exit with code 1: no download is attempted and the filesystem (input
\* file, output files) stays as it was.
C10_ExistingOutputDirStops ==
    (ex_pc # "idle" /\ ex_fs0.out_dir) =>
        /\ ex_fs = ex_fs0
        /\ ex_log = <<>>
        /\ ex_pc \in {"start", "exited"}
        /\ ex_pc = "exited" => ex_exit = 1
        /\ ex_pc = "start" => ex_exit = None

\* C10 witness: the script has exited over an existing output directory that
\* holds files, with the input file missing
C10_Witness ==
    /\ ex_pc = "exited"
    /\ ex_exit = 1
    /\ ex_fs0.out_dir
    /\ ex_fs0.input = "missing"
    /\ ex_fs.files = OldFiles

(***************************************************************************)
(* SpecValidate: the body of validate_svgs.py                              *)
(***************************************************************************)

\* at most this many SVG files under the directory
MaxSvgFiles == 2

\* How one run_command call can end: exit status 0, a non-zero exit status,
\* subprocess.TimeoutExpired, or any other exception (the tool is missing).
ToolOutcomes == {"pass", "fail", "timeout", "exception"}

\* what rglob can find: per file, how each validator would end on it
SvgFile == [xmllint : ToolOutcomes, svgcheck : {"pass", "fail", "timeout"}]

RECURSIVE SeqsUpTo(_, _)
SeqsUpTo(S, n) ==
    IF n = 0 THEN {<<>>}
    ELSE LET shorter == SeqsUpTo(S, n - 1)
         IN  shorter \cup {Append(q, x) : q \in {r \in shorter : Len(r) = n - 1}, x \in S}

\* run_command(cmd_list, file_path, verbose): what it prints, and its result
run_command(outcome, file, tool, verbose) ==
    [printed |-> IF outcome = "timeout"
                 THEN <<[file |-> file, tool |-> tool, kind |-> "timeout_warning"]>>
                 ELSE IF verbose /\ outcome = "fail"
                 THEN <<[file |-> file, tool |-> tool, kind |-> "tool_output"]>>
                 ELSE <<>>,
     ok |-> outcome = "pass"]

\* print(f"  {mark} {tool}: {'PASS' if ok else 'FAIL'}")
ResultLine(file, tool, ok) ==
    [file |-> file, tool |-> tool, kind |-> IF ok THEN "PASS" ELSE "FAIL"]

\* if not xmllint_pass: failed = True
FailedAfter_LastWins(was_failed, ok) == ~ok
FailedAfter(was_failed, ok) == was_failed \/ ~ok

InitValidate ==
    /\ AtlasIdle /\ ExtractIdle /\ ComposeIdle /\ FetchIdle /\ RunIdle /\ TableIdle
    /\ va_pc = "start"
    /\ va_in \in {[is_dir |-> d, verbose |-> v, svgcheck |-> c, files |-> f] :
                    d \in BOOLEAN, v \in BOOLEAN, c \in BOOLEAN,
                    f \in SeqsUpTo(SvgFile, MaxSvgFiles)}
    /\ ~va_in.is_dir => va_in.files = <<>>
    /\ va_idx = 1
    /\ va_failed = FALSE
    /\ va_lines = <<>>
    /\ va_exit = None

\* if not directory.is_dir(): sys.exit(1)
VaBadDirectory ==
    /\ va_pc = "start"
    /\ ~va_in.is_dir
    /\ va_pc' = "exited"
    /\ va_exit' = 1
    /\ UNCHANGED <<va_in, va_idx, va_failed, va_lines>>
    /\ UNCHANGED <<atlasVars, extractVars, composeVars, fetchVars, runVars, tableVars>>

\* svg_files = list(directory.rglob("*.svg")); if not svg_files: sys.exit(0)
VaListFiles ==
    /\ va_pc = "start"
    /\ va_in.is_dir
    /\ IF va_in.files = <<>>
       THEN va_pc' = "exited" /\ va_exit' = 0
       ELSE va_pc' = "loop" /\ va_exit' = None
    /\ UNCHANGED <<va_in, va_idx, va_failed, va_lines>>
    /\ UNCHANGED <<atlasVars, extractVars, composeVars, fetchVars, runVars, tableVars>>

\* one iteration of: for svg_file in svg_files
VaCheckFile ==
    /\ va_pc = "loop"
    /\ va_idx <= Len(va_in.files)
    /\ LET f == va_in.files[va_idx]
           x == run_command(f.xmllint, va_idx, "xmllint", va_in.verbose)
           failed1 == FailedAfter(va_failed, x.ok)
           c == run_command(f.svgcheck, va_idx, "svgcheck", va_in.verbose)
           header == <<[file |-> va_idx, tool |-> "", kind |-> "header"]>>
       IN  IF va_in.svgcheck
           THEN /\ va_lines' = va_lines \o header
                                  \o x.printed \o <<ResultLine(va_idx, "xmllint", x.ok)>>
                                  \o c.printed \o <<ResultLine(va_idx, "svgcheck", c.ok)>>
                /\ va_failed' = FailedAfter(failed1, c.ok)
           ELSE /\ va_lines' = va_lines \o header
                                  \o x.printed \o <<ResultLine(va_idx, "xmllint", x.ok)>>
                /\ va_failed' = failed1
    /\ va_idx' = va_idx + 1
    /\ UNCHANGED <<va_pc, va_in, va_exit>>
    /\ UNCHANGED <<atlasVars, extractVars, composeVars, fetchVars, runVars, tableVars>>

\* after the loop: sys.exit(0) if not failed, else sys.exit(1)
VaFinish ==
    /\ va_pc = "loop"
    /\ va_idx > Len(va_in.files)
    /\ va_pc' = "exited"
    /\ va_exit' = IF ~va_failed THEN 0 ELSE 1
    /\ UNCHANGED <<va_in, va_idx, va_failed, va_lines>>
    /\ UNCHANGED <<atlasVars, extractVars, composeVars, fetchVars, runVars, tableVars>>

NextValidate == VaBadDirectory \/ VaListFiles \/ VaCheckFile \/ VaFinish

SpecValidate == InitValidate /\ [][NextValidate]_vars

\* the validators that are switched on
EnabledTools == IF va_in.svgcheck THEN {"xmllint", "svgcheck"} ELSE {"xmllint"}

\* how the tool would end on a file
ToolOutcome(f, tool) == IF tool = "xmllint" THEN f.xmllint ELSE f.svgcheck

\* the positions of the pass/fail lines printed for a file and a tool
ResultLinesFor(file, tool) ==
    {k \in DOMAIN va_lines :
        /\ va_lines[k].file = file
        /\ va_lines[k].tool = tool
        /\ va_lines[k].kind \in {"PASS", "FAIL"}}

\* C7: once the utility has exited, the exit code is 1 exactly if the argument
\* was no directory or some enabled check failed on some file, else 0; and for
\* a directory every file has exactly one pass/fail line per enabled validator,
\* PASS exactly if that check passed, and none for a validator switched off.
C7_AllFilesCheckedExitCode ==
    va_pc = "exited" =>
        LET files == va_in.files
            anyFailed == \E i \in DOMAIN files, tool \in EnabledTools :
                            ToolOutcome(files[i], tool) # "pass"
        IN  /\ va_exit = IF ~va_in.is_dir \/ anyFailed THEN 1 ELSE 0
            /\ \A i \in DOMAIN files, tool \in {"xmllint", "svgcheck"} :
                  IF tool \in EnabledTools
                  THEN \E k \in DOMAIN va_lines :
                          /\ ResultLinesFor(i, tool) = {k}
                          /\ va_lines[k].kind = "PASS" <=> ToolOutcome(files[i], tool) = "pass"
                  ELSE ResultLinesFor(i, tool) = {}

\* C7 witness: a malformed file followed by a well-formed one, xmllint alone:
\* two pass/fail lines, FAIL then PASS, and exit code 1
C7_Witness ==
    /\ va_pc = "exited"
    /\ va_exit = 1
    /\ ~va_in.svgcheck
    /\ Len(va_in.files) = 2
    /\ va_in.files[1].xmllint = "fail"
    /\ va_in.files[2].xmllint = "pass"
    /\ SelectSeq(va_lines, LAMBDA l : l.kind \in {"PASS", "FAIL"})
          = <<ResultLine(1, "xmllint", FALSE), ResultLine(2, "xmllint", TRUE)>>

(***************************************************************************)
(* Exact rational arithmetic for the compositor's floats                   *)
(***************************************************************************)

Abs(i) == IF i < 0 THEN -i ELSE i

RECURSIVE GCD(_, _)
GCD(a, b) == IF b = 0 THEN a ELSE GCD(b, a % b)

\* the rational n/d in lowest terms with a positive denominator (d # 0)
Rat(n, d) ==
    LET g == GCD(Abs(n), Abs(d))
        sign == IF d < 0 THEN -1 ELSE 1
    IN  [n |-> sign * (n \div g), d |-> Abs(d) \div g]

RInt(i) == [n |-> i, d |-> 1]
RAdd(a, b) == Rat(a.n * b.d + b.n * a.d, a.d * b.d)
RSub(a, b) == Rat(a.n * b.d - b.n * a.d, a.d * b.d)
RMul(a, b) == Rat(a.n * b.n, a.d * b.d)
RDiv(a, b) == Rat(a.n * b.d, a.d * b.n)
RLeq(a, b) == a.n * b.d <= b.n * a.d
RMin(a, b) == IF RLeq(a, b) THEN a ELSE b
RMax(a, b) == IF RLeq(a, b) THEN b ELSE a

(***************************************************************************)
(* SpecCompose: process_downloaded_svg of                                  *)
(* generate_back_and_jokers_for_digitaldesignlabs.py                       *)
(***************************************************************************)

TARGET_WIDTH == 225
TARGET_HEIGHT == 314
STROKE_WIDTH == 2
JOKER_VERTICAL_PADDING == 16

\* the overscale factors 1.035, 1.02 and 1.01
BACK_OVERSCALE_X == Rat(1035, 1000)
BACK_OVERSCALE_Y == Rat(102, 100)
JOKER_OVERSCALE == Rat(101, 100)

\* the fallback box of get_viewbox
FALLBACK_WIDTH == 200
FALLBACK_HEIGHT == 300

\* str.upper()
UpperChar(c) == IF IsLowerAlpha(c) THEN Chr(Ord(c) - 32) ELSE c
upper(s) == [i \in 1..Len(s) |-> UpperChar(s[i])]

\* str.endswith
EndsWith(s, suffix) ==
    Len(s) >= Len(suffix) /\ SubSeq(s, Len(s) - Len(suffix) + 1, Len(s)) = suffix

is_back_filename(fname) == EndsWith(upper(fname), <<"B", ".", "S", "V", "G">>)
is_joker_filename(fname) == EndsWith(upper(fname), <<"J", ".", "S", "V", "G">>)

\* str.strip(): without the white space at either end
IsSpace(c) == c \in {" ", "\t", "\n", "\r"}

RECURSIVE strip(_)
strip(s) ==
    IF s = <<>> THEN s
    ELSE IF IsSpace(Head(s)) THEN strip(Tail(s))
    ELSE IF IsSpace(s[Len(s)]) THEN strip(SubSeq(s, 1, Len(s) - 1))
    ELSE s

\* re.split(r"[,\s]+", s): the pieces between the runs of commas and white
\* space, an empty piece where s starts or ends with a run
IsSeparator(c) == c = "," \/ IsSpace(c)

RECURSIVE SplitFrom(_, _, _)
SplitFrom(s, i, piece) ==
    IF i > Len(s) THEN <<piece>>
    ELSE IF IsSeparator(s[i])
    THEN IF i > 1 /\ IsSeparator(s[i - 1])
         THEN SplitFrom(s, i + 1, piece)
         ELSE <<piece>> \o SplitFrom(s, i + 1, <<>>)
    ELSE SplitFrom(s, i + 1, Append(piece, s[i]))

Split(s) == SplitFrom(s, 1, <<>>)

RECURSIVE DigitsValue(_)
DigitsValue(digits) ==
    IF digits = <<>> THEN 0
    ELSE 10 * DigitsValue(SubSeq(digits, 1, Len(digits) - 1)) + (Ord(digits[Len(digits)]) - 48)

RECURSIVE Pow10(_)
Pow10(k) == IF k = 0 THEN 1 ELSE 10 * Pow10(k - 1)

\* float(text) for the decimal notation the texts of the model use, an optional
\* sign, digits and at most one point: a sequence holding the number, or the
\* empty sequence for ValueError
float(text) ==
    LET signed == text # <<>> /\ text[1] \in {"+", "-"}
        body == IF signed THEN Tail(text) ELSE text
        digits == SelectSeq(body, IsDigit)
        points == {k \in DOMAIN body : body[k] = "."}
        decimals == IF points = {} THEN 0 ELSE Len(body) - (CHOOSE k \in points : TRUE)
        value == Rat(DigitsValue(digits), Pow10(decimals))
    IN  IF /\ digits # <<>>
           /\ Cardinality(points) <= 1
           /\ \A k \in DOMAIN body : IsDigit(body[k]) \/ body[k] = "."
        THEN <<IF signed /\ text[1] = "-" THEN RSub(RInt(0), value) ELSE value>>
        ELSE <<>>

\* parse_unit(val): 0.0 for no text; otherwise the float of the text without
\* whatever is neither digit nor point, 0.0 when that is no number
parse_unit(val) ==
    IF val = <<>> THEN RInt(0)
    ELSE LET clean == SelectSeq(val, LAMBDA c : IsDigit(c) \/ c = ".")
         IN  IF float(clean) = <<>> THEN RInt(0) ELSE float(clean)[1]

IsPositive(r) == r.n > 0

\* get_viewbox(root): a sequence holding the box (min_x, min_y, width, height),
\* or the empty sequence when float() raises ValueError.  root.viewBox,
\* root.width and root.height are the attribute texts, empty when absent.
get_viewbox(root) ==
    LET parts == Split(strip(root.viewBox))
        w == parse_unit(root.width)
        h == parse_unit(root.height)
    IN  IF root.viewBox # <<>> /\ Len(parts) = 4
        THEN IF \E k \in 1..4 : float(parts[k]) = <<>>
             THEN <<>>
             ELSE <<[min_x |-> float(parts[1])[1], min_y |-> float(parts[2])[1],
                     w |-> float(parts[3])[1], h |-> float(parts[4])[1]]>>
        ELSE IF IsPositive(w) /\ IsPositive(h)
        THEN <<[min_x |-> RInt(0), min_y |-> RInt(0), w |-> w, h |-> h]>>
        ELSE <<[min_x |-> RInt(0), min_y |-> RInt(0),
                w |-> RInt(FALLBACK_WIDTH), h |-> RInt(FALLBACK_HEIGHT)]>>

\* inner_rect(): the card interior, inside the stroke
inner_rect ==
    LET inset == Rat(STROKE_WIDTH, 2)
    IN  [x |-> inset, y |-> inset,
         w |-> RInt(TARGET_WIDTH - STROKE_WIDTH), h |-> RInt(TARGET_HEIGHT - STROKE_WIDTH)]

\* the rect the source is fitted into: for jokers, padded at top and bottom
FitRect(fname) ==
    IF is_joker_filename(fname)
    THEN [inner_rect EXCEPT !.y = RAdd(@, RInt(JOKER_VERTICAL_PADDING)),
                            !.h = RSub(@, RInt(JOKER_VERTICAL_PADDING * 2))]
    ELSE inner_rect

\* scale = max(scale_w, scale_h) if mode == "cover" else min(scale_w, scale_h)
PickScale_Swapped(mode, scale_w, scale_h) ==
    IF mode = "cover" THEN RMin(scale_w, scale_h) ELSE RMax(scale_w, scale_h)
PickScale(mode, scale_w, scale_h) ==
    IF mode = "cover" THEN RMax(scale_w, scale_h) ELSE RMin(scale_w, scale_h)

\* tx = dst_x + (dst_w - (src_w * scale_x)) / 2 - (src_min_x * scale_x), and ty
Translate_OriginIgnored(dst_o, dst_len, src_len, src_min, sc) ==
    RAdd(dst_o, RDiv(RSub(dst_len, RMul(src_len, sc)), RInt(2)))
Translate(dst_o, dst_len, src_len, src_min, sc) ==
    RSub(RAdd(dst_o, RDiv(RSub(dst_len, RMul(src_len, sc)), RInt(2))), RMul(src_min, sc))

\* an element: its tag, the attributes the scripts look at, and its children
El(tag, id, cls, fill, stroke, children) ==
    [tag |-> tag, id |-> id, cls |-> cls, fill |-> fill, stroke |-> stroke,
     children |-> children]

\* child.tag.endswith("defs")
IsDefsTag(tag) == tag = "defs"

\* create_container_svg(): the children of the new root
create_container_svg == <<>>

\* add_background(root): root.insert(0, bg)
add_background_OnTop(children) == Append(children, El("rect", "", "", "#fefefe", "", <<>>))
add_background(children) == <<El("rect", "", "", "#fefefe", "", <<>>)>> \o children

\* ensure_defs(root): the first <defs> child, inserted at the front when missing
ensure_defs(children) ==
    IF \E i \in DOMAIN children : IsDefsTag(children[i].tag)
    THEN children
    ELSE <<El("defs", "", "", "", "", <<>>)>> \o children

\* add_clip_path(root): the clipPath "card-clip" goes into that <defs>, once
add_clip_path(children) ==
    LET with_defs == ensure_defs(children)
        i == CHOOSE k \in DOMAIN with_defs :
                /\ IsDefsTag(with_defs[k].tag)
                /\ \A j \in 1..(k - 1) : ~IsDefsTag(with_defs[j].tag)
        clip == El("clipPath", "card-clip", "", "", "", <<El("rect", "", "", "", "", <<>>)>>)
    IN  IF \E j \in DOMAIN with_defs[i].children :
              with_defs[i].children[j].tag = "clipPath" /\ with_defs[i].children[j].id = "card-clip"
        THEN with_defs
        ELSE [with_defs EXCEPT ![i].children = Append(@, clip)]

\* add_border(root): root.append(rect)
add_border_Underneath(children) == <<El("rect", "", "", "none", "black", <<>>)>> \o children
add_border(children) == Append(children, El("rect", "", "", "none", "black", <<>>))

\* the document process_downloaded_svg and generate_simple_joker build around
\* their content group: background, clip path, the clipped group, border
card_document(content) ==
    LET clipped == El("g", "", "", "", "", <<content>>)
    IN  add_border(Append(add_clip_path(add_background(create_container_svg)), clipped))

\* process_downloaded_svg from get_viewbox to the transform, for a source whose
\* box has non-zero width and height
process_downloaded_svg(root, fname, mode) ==
    LET src == get_viewbox(root)[1]
        dst == FitRect(fname)
        scale_w == RDiv(dst.w, src.w)
        scale_h == RDiv(dst.h, src.h)
        scale == PickScale(mode, scale_w, scale_h)
        scale_x == IF is_back_filename(fname) THEN RMul(scale, BACK_OVERSCALE_X)
                   ELSE IF is_joker_filename(fname) THEN RMul(scale, JOKER_OVERSCALE)
                   ELSE scale
        scale_y == IF is_back_filename(fname) THEN RMul(scale, BACK_OVERSCALE_Y)
                   ELSE IF is_joker_filename(fname) THEN RMul(scale, JOKER_OVERSCALE)
                   ELSE scale
    IN  [src |-> src, dst |-> dst, scale_w |-> scale_w, scale_h |-> scale_h,
         scale |-> scale, scale_x |-> scale_x, scale_y |-> scale_y,
         tx |-> Translate(dst.x, dst.w, src.w, src.min_x, scale_x),
         ty |-> Translate(dst.y, dst.h, src.h, src.min_y, scale_y),
         doc |-> card_document(El("g", "", "", "", "", root.children))]

\* the largest side of a source viewBox of the model
MaxSide == 4

\* str(i) for the numbers of the viewBox texts
RECURSIVE NatText(_)
NatText(n) == IF n < 10 THEN <<Chr(48 + n)>> ELSE NatText(n \div 10) \o <<Chr(48 + (n % 10))>>
IntText(i) == IF i < 0 THEN <<"-">> \o NatText(-i) ELSE NatText(i)

\* viewBox texts of four numbers
ViewBoxes ==
    {IntText(x) \o <<" ">> \o IntText(y) \o <<" ">> \o IntText(w) \o <<" ">> \o IntText(h) :
        x \in {-3, 0, 2}, y \in {-3, 0, 2}, w \in -1..MaxSide, h \in -1..MaxSide}

\* other viewBox texts: absent, three numbers, five pieces, decimals between
\* commas and spaces, and four pieces of which one is no number
OddViewBoxes == {<<>>, <<"0", " ", "0", " ", "5">>, <<"0", " ", "0", " ", "4", " ", "2", ",">>, <<" ", "2", ",", "-", "3", ",", " ", "1", ".", "5", " ", "3", " ">>, <<"0", " ", "0", " ", "a", "b", "c", " ", "4">>, <<"0", " ", "0", " ", "4", "p", "x", " ", "2", "p", "x">>}

\* width and height texts
SizeTexts == {<<>>, <<"2">>, <<"0">>, <<"3", "p", "x">>, <<"a", "b", "c">>, <<"-", "1", ".", "5">>}

\* the children of a source root: its own <defs> and its drawing
SourceChildren == <<El("defs", "", "", "", "", <<>>), El("path", "", "", "black", "", <<>>)>>

\* source roots: with a viewBox of four numbers, or with another one and width
\* and height attributes
Roots ==
    {[viewBox |-> vb, width |-> <<>>, height |-> <<>>, children |-> SourceChildren] :
        vb \in ViewBoxes}
    \cup {[viewBox |-> vb, width |-> w, height |-> h, children |-> SourceChildren] :
            vb \in OddViewBoxes, w \in SizeTexts, h \in SizeTexts}

ComposeNames == {<<"1", "B", ".", "s", "v", "g">>, <<"1", "J", ".", "s", "v", "g">>, <<"2", "j", ".", "s", "v", "g">>, <<"K", "H", ".", "s", "v", "g">>}

InitCompose ==
    /\ AtlasIdle /\ ExtractIdle /\ ValidateIdle /\ FetchIdle /\ RunIdle /\ TableIdle
    /\ co_pc = "ready"
    /\ co_in \in {[parses |-> ok, root |-> r, filename |-> f, mode |-> m] :
                    ok \in BOOLEAN, r \in Roots, f \in ComposeNames,
                    m \in {"contain", "cover"}}
    /\ ~co_in.parses => co_in.root = [viewBox |-> <<>>, width |-> <<>>, height |-> <<>>,
                                        children |-> SourceChildren]
    /\ co_out = None

\* ET.fromstring(content) raises ParseError: the error is printed, nothing is written
ComposeParseError ==
    /\ co_pc = "ready"
    /\ ~co_in.parses
    /\ co_pc' = "skipped"
    /\ UNCHANGED <<co_in, co_out>>
    /\ UNCHANGED <<atlasVars, extractVars, validateVars, fetchVars, runVars, tableVars>>

\* get_viewbox: float() of a piece of the viewBox raises ValueError, uncaught
ComposeValueError ==
    /\ co_pc = "ready"
    /\ co_in.parses
    /\ get_viewbox(co_in.root) = <<>>
    /\ co_pc' = "ValueError"
    /\ UNCHANGED <<co_in, co_out>>
    /\ UNCHANGED <<atlasVars, extractVars, validateVars, fetchVars, runVars, tableVars>>

\* dst_w / src_w or dst_h / src_h divides by zero: ZeroDivisionError, uncaught
ComposeZeroDivision ==
    /\ co_pc = "ready"
    /\ co_in.parses
    /\ get_viewbox(co_in.root) # <<>>
    /\ LET src == get_viewbox(co_in.root)[1] IN src.w.n = 0 \/ src.h.n = 0
    /\ co_pc' = "ZeroDivisionError"
    /\ UNCHANGED <<co_in, co_out>>
    /\ UNCHANGED <<atlasVars, extractVars, validateVars, fetchVars, runVars, tableVars>>

\* the source is fitted and the document saved
Compose ==
    /\ co_pc = "ready"
    /\ co_in.parses
    /\ get_viewbox(co_in.root) # <<>>
    /\ LET src == get_viewbox(co_in.root)[1] IN src.w.n # 0 /\ src.h.n # 0
    /\ co_out' = process_downloaded_svg(co_in.root, co_in.filename, co_in.mode)
    /\ co_pc' = "done"
    /\ UNCHANGED co_in
    /\ UNCHANGED <<atlasVars, extractVars, validateVars, fetchVars, runVars, tableVars>>

NextCompose == ComposeParseError \/ ComposeValueError \/ ComposeZeroDivision \/ Compose

SpecCompose == InitCompose /\ [][NextCompose]_vars

(***************************************************************************)
(* Compositor claims                                                       *)
(***************************************************************************)

\* the card interior (inside the stroke) and its centre
InteriorW == RInt(TARGET_WIDTH - STROKE_WIDTH)
InteriorH == RInt(TARGET_HEIGHT - STROKE_WIDTH)
InteriorCentreX == RAdd(Rat(STROKE_WIDTH, 2), RDiv(InteriorW, RInt(2)))
InteriorCentreY == RAdd(Rat(STROKE_WIDTH, 2), RDiv(InteriorH, RInt(2)))

\* the height a source is fitted to: jokers lose the padding at top and bottom
FitH(fname) ==
    IF is_joker_filename(fname)
    THEN RSub(InteriorH, RInt(2 * JOKER_VERTICAL_PADDING)) ELSE InteriorH

\* the per-axis overscale of a filename class
OverscaleX(fname) ==
    IF is_back_filename(fname) THEN Rat(207, 200)
    ELSE IF is_joker_filename(fname) THEN Rat(101, 100) ELSE RInt(1)
OverscaleY(fname) ==
    IF is_back_filename(fname) THEN Rat(51, 50)
    ELSE IF is_joker_filename(fname) THEN Rat(101, 100) ELSE RInt(1)

MinOrMax(mode, a, b) == IF mode = "cover" THEN RMax(a, b) ELSE RMin(a, b)

IsSquare(box) == box.w = box.h /\ box.w.n > 0

\* the same source and filename composed in the other mode
InMode(mode) == process_downloaded_svg(co_in.root, co_in.filename, mode)

\* C8 as stated: the scale applied to the source (the factors of the transform)
\* is min(interior_w/source_w, interior_h/source_h) in contain mode and the max
\* in cover mode; a square source of side 2r in contain mode gets
\* min(w,h)/(2r); the cover scale is never smaller than the contain scale.
C8_AppliedScaleIsMinOrMax ==
    co_pc = "done" =>
        LET sw == RDiv(InteriorW, co_out.src.w)
            sh == RDiv(InteriorH, co_out.src.h)
        IN  /\ co_out.scale_x = MinOrMax(co_in.mode, sw, sh)
            /\ co_out.scale_y = MinOrMax(co_in.mode, sw, sh)
            /\ (co_in.mode = "contain" /\ IsSquare(co_out.src)) =>
                  co_out.scale_x = RDiv(RMin(InteriorW, InteriorH), co_out.src.w)
            /\ RLeq(InMode("contain").scale_x, InMode("cover").scale_x)
            /\ RLeq(InMode("contain").scale_y, InMode("cover").scale_y)

\* C8, amended: the base scale is the min (contain) or max (cover) of
\* fit_w/source_w and fit_h/source_h, where the fit rect is the interior, for
\* jokers less the vertical padding at top and bottom; the transform applies
\* the base scale times the overscale of the filename class; a square source
\* of positive side 2r in contain mode gets base scale min(fit_w,fit_h)/(2r);
\* base and applied cover scales are never smaller than the contain ones.
C8_BaseScaleIsMinOrMax ==
    co_pc = "done" =>
        LET sw == RDiv(InteriorW, co_out.src.w)
            sh == RDiv(FitH(co_in.filename), co_out.src.h)
            base == MinOrMax(co_in.mode, sw, sh)
        IN  /\ co_out.scale = base
            /\ co_out.scale_x = RMul(base, OverscaleX(co_in.filename))
            /\ co_out.scale_y = RMul(base, OverscaleY(co_in.filename))
            /\ (co_in.mode = "contain" /\ IsSquare(co_out.src)) =>
                  co_out.scale = RDiv(RMin(InteriorW, FitH(co_in.filename)), co_out.src.w)
            /\ RLeq(InMode("contain").scale, InMode("cover").scale)
            /\ RLeq(InMode("contain").scale_x, InMode("cover").scale_x)
            /\ RLeq(InMode("contain").scale_y, InMode("cover").scale_y)

\* a square source composed in contain mode as a card back, and one whose two
\* ratios differ
C8_Witness ==
    /\ co_pc = "done"
    /\ co_in.mode = "contain"
    /\ is_back_filename(co_in.filename)
    /\ IsSquare(co_out.src)
    /\ co_out.scale_w # co_out.scale_h
    /\ co_out.scale_x # co_out.scale

\* where the transform translate(tx ty) scale(scale_x scale_y) puts the centre
\* of the source box
MappedCentreX ==
    LET left == RAdd(co_out.tx, RMul(co_out.src.min_x, co_out.scale_x))
        right == RAdd(co_out.tx, RMul(RAdd(co_out.src.min_x, co_out.src.w), co_out.scale_x))
    IN  RDiv(RAdd(left, right), RInt(2))
MappedCentreY ==
    LET top == RAdd(co_out.ty, RMul(co_out.src.min_y, co_out.scale_y))
        bottom == RAdd(co_out.ty, RMul(RAdd(co_out.src.min_y, co_out.src.h), co_out.scale_y))
    IN  RDiv(RAdd(top, bottom), RInt(2))

\* C9: for every source box with w, h > 0, any origin, fit mode and filename
\* class, the transform maps the source box to a box whose centre is the centre
\* of the card interior rect on both axes.
C9_SourceCentredInInterior ==
    (co_pc = "done" /\ co_out.src.w.n > 0 /\ co_out.src.h.n > 0) =>
        /\ MappedCentreX = InteriorCentreX
        /\ MappedCentreY = InteriorCentreY

\* a padded joker in cover mode whose source box has a non-zero origin on both axes
C9_Witness ==
    /\ co_pc = "done"
    /\ co_in.mode = "cover"
    /\ is_joker_filename(co_in.filename)
    /\ co_out.src.w.n > 0 /\ co_out.src.h.n > 0
    /\ co_out.src.min_x.n > 0 /\ co_out.src.min_y.n < 0
    /\ co_out.dst.y # Rat(STROKE_WIDTH, 2)

(***************************************************************************)
(* SpecFetch: every call site of safe_urlopen in the five scripts that use *)
(* the network                                                             *)
(***************************************************************************)

\* at most this many items (file pages, card URLs) in one run
MaxItems == 2

\* urllib.parse.urlparse(url).scheme: what precedes the first ":" when that is
\* a letter followed by letters, digits, "+", "-" or ".", in lower case;
\* otherwise the empty string
IsSchemeChar(c) == IsLowerAlpha(c) \/ IsUpper(c) \/ IsDigit(c) \/ c \in {"+", "-", "."}

FirstColon(url) ==
    IF \E i \in 1..Len(url) : url[i] = ":"
    THEN CHOOSE i \in 1..Len(url) : url[i] = ":" /\ \A j \in 1..(i - 1) : url[j] # ":"
    ELSE 0

UrlScheme(url) ==
    LET i == FirstColon(url)
    IN  IF /\ i > 1
           /\ IsLowerAlpha(url[1]) \/ IsUpper(url[1])
           /\ \A j \in 1..(i - 1) : IsSchemeChar(url[j])
        THEN lower(SubSeq(url, 1, i - 1))
        ELSE <<>>

HTTP == <<"h", "t", "t", "p">>
HTTPS == <<"h", "t", "t", "p", "s">>

\* safe_urlopen(url): raises ValueError, or hands the URL to urllib.request.urlopen
safe_urlopen_Unchecked(url) == "urlopen"
safe_urlopen(url) ==
    IF UrlScheme(url) \notin {HTTP, HTTPS} THEN "ValueError" ELSE "urlopen"

\* what the network does with an opened URL: the response is read, or the
\* request fails (timeout, non-2xx status, connection error)
NetOutcomes == {"ok", "network_error"}

\* one "with safe_urlopen(...) as response: response.read()": the URLs handed
\* to urlopen and how the fetch ended
Fetch(url, net) ==
    IF safe_urlopen(url) = "ValueError"
    THEN [url |-> url, opened |-> <<>>, result |-> "insecure_scheme"]
    ELSE [url |-> url, opened |-> <<url>>, result |-> net]

\* the URLs a configuration constant or a function argument may hold
Urls == {<<"h", "t", "t", "p", "s", ":", "/", "/", "h", "/", "a">>, <<"h", "t", "t", "p", ":", "/", "/", "h", "/", "a">>, <<"H", "T", "T", "P", "S", ":", "/", "/", "h", "/", "a">>, <<"f", "t", "p", ":", "/", "/", "h", "/", "a">>, <<"f", "i", "l", "e", ":", "/", "/", "/", "a">>, <<"h", "/", "a">>}

\* download_file: f"https://commons.wikimedia.org{file_page_part}"
WIKI_PREFIX == <<"h", "t", "t", "p", "s", ":", "/", "/", "c", "o", "m", "m", "o", "n", "s", ".", "w", "i", "k", "i", "m", "e", "d", "i", "a", ".", "o", "r", "g">>
\* download_file: the upload link the file page's html matches
UPLOAD_PREFIX == <<"h", "t", "t", "p", "s", ":", "/", "/", "u", "p", "l", "o", "a", "d", ".", "w", "i", "k", "i", "m", "e", "d", "i", "a", ".", "o", "r", "g", "/", "w", "i", "k", "i", "p", "e", "d", "i", "a", "/", "c", "o", "m", "m", "o", "n", "s", "/">>

\* the file pages of the category, and the cards below BASE_URL
FilePages == <<<<"/", "w", "i", "k", "i", "/", "F", "i", "l", "e", ":", "K", ".", "s", "v", "g">>, <<"/", "w", "i", "k", "i", "/", "F", "i", "l", "e", ":", "Q", ".", "s", "v", "g">>, <<"/", "w", "i", "k", "i", "/", "F", "i", "l", "e", ":", "J", ".", "s", "v", "g">>>>
DdlSources == <<<<"s", "p", "a", "d", "e", "s", "/", "1", "s", ".", "s", "v", "g">>, <<"s", "p", "a", "d", "e", "s", "/", "2", "s", ".", "s", "v", "g">>, <<"s", "p", "a", "d", "e", "s", "/", "3", "s", ".", "s", "v", "g">>>>

Scripts == {"atlasnye", "brescia", "digitaldesignlabs", "htdebeer", "generate"}

Prefixes(seq) == {SubSeq(seq, 1, k) : k \in 0..MaxItems}

\* for each script, the URL it is configured with (CATEGORY_URL, BASE_URL, URL)
\* and the items of its loop (URLS of the generator)
FetchConfigs(script) ==
    IF script \in {"atlasnye", "brescia"}
    THEN {[url |-> u, items |-> it] : u \in Urls, it \in Prefixes(FilePages)}
    ELSE IF script = "digitaldesignlabs"
    THEN {[url |-> u, items |-> it] : u \in Urls, it \in Prefixes(DdlSources)}
    ELSE IF script = "htdebeer"
    THEN {[url |-> u, items |-> <<>>] : u \in Urls}
    ELSE {[url |-> <<>>, items |-> it] : it \in SeqsUpTo(Urls, MaxItems)}

LogEntry(f, handling) == [url |-> f.url, result |-> f.result, handling |-> handling]

InitFetch ==
    /\ AtlasIdle /\ ExtractIdle /\ ValidateIdle /\ ComposeIdle /\ RunIdle /\ TableIdle
    /\ fe_script \in Scripts
    /\ fe_cfg \in FetchConfigs(fe_script)
    /\ fe_pc = IF fe_script \in {"digitaldesignlabs", "generate"} THEN "items" ELSE "start"
    /\ fe_idx = 1
    /\ fe_opened = <<>>
    /\ fe_log = <<>>

\* main() of the Atlasnye and Brescia downloaders: html = get_html(CATEGORY_URL),
\* outside any try
FeCategoryPage ==
    /\ fe_pc = "start"
    /\ fe_script \in {"atlasnye", "brescia"}
    /\ \E net \in NetOutcomes :
        LET f == Fetch(fe_cfg.url, net)
        IN  /\ fe_opened' = fe_opened \o f.opened
            /\ fe_log' = Append(fe_log, LogEntry(f, IF f.result = "ok" THEN "none"
                                                    ELSE "propagated"))
            /\ fe_pc' = IF f.result = "ok" THEN "items" ELSE "raised"
    /\ UNCHANGED <<fe_script, fe_cfg, fe_idx>>
    /\ UNCHANGED <<atlasVars, extractVars, validateVars, composeVars, runVars, tableVars>>

\* download_file of the Atlasnye and Brescia downloaders, called for the next
\* item: the file page is fetched and, when it holds an upload link, the file
\* itself; except Exception prints the error and returns False
FeDownloadFile ==
    /\ fe_pc = "items"
    /\ fe_script \in {"atlasnye", "brescia"}
    /\ fe_idx <= Len(fe_cfg.items)
    /\ \E outcome \in Outcomes :
        LET page == Fetch(WIKI_PREFIX \o fe_cfg.items[fe_idx],
                          IF outcome = "page_error" THEN "network_error" ELSE "ok")
            raw == Fetch(UPLOAD_PREFIX \o AfterLast(fe_cfg.items[fe_idx], FileSep),
                         IF outcome = "read_error" THEN "network_error" ELSE "ok")
        IN  IF page.result # "ok"
            THEN /\ fe_opened' = fe_opened \o page.opened
                 /\ fe_log' = Append(fe_log, LogEntry(page, "logged"))
            ELSE IF outcome = "no_link"
            THEN /\ fe_opened' = fe_opened \o page.opened
                 /\ fe_log' = Append(fe_log, LogEntry(page, "none"))
            ELSE /\ fe_opened' = fe_opened \o page.opened \o raw.opened
                 /\ fe_log' = fe_log \o <<LogEntry(page, "none"),
                                          LogEntry(raw, IF raw.result = "ok" THEN "none"
                                                        ELSE "logged")>>
    /\ fe_idx' = fe_idx + 1
    /\ UNCHANGED <<fe_script, fe_cfg, fe_pc>>
    /\ UNCHANGED <<atlasVars, extractVars, validateVars, composeVars, runVars, tableVars>>

\* download_svg_text(url) of the digitaldesignlabs downloader, called by main()
\* with f"{BASE_URL}{folder_name}/{src}": except Exception prints and returns None
FeDownloadSvgText ==
    /\ fe_pc = "items"
    /\ fe_script = "digitaldesignlabs"
    /\ fe_idx <= Len(fe_cfg.items)
    /\ \E net \in NetOutcomes :
        LET f == Fetch(fe_cfg.url \o fe_cfg.items[fe_idx], net)
        IN  /\ fe_opened' = fe_opened \o f.opened
            /\ fe_log' = Append(fe_log, LogEntry(f, IF f.result = "ok" THEN "none"
                                                    ELSE "logged"))
    /\ fe_idx' = fe_idx + 1
    /\ UNCHANGED <<fe_script, fe_cfg, fe_pc>>
    /\ UNCHANGED <<atlasVars, extractVars, validateVars, composeVars, runVars, tableVars>>

\* download_svg_content(url) of the back and joker generator, called by main()
\* for the next entry of URLS: except Exception prints and returns None
FeDownloadSvgContent ==
    /\ fe_pc = "items"
    /\ fe_script = "generate"
    /\ fe_idx <= Len(fe_cfg.items)
    /\ \E net \in NetOutcomes :
        LET f == Fetch(fe_cfg.items[fe_idx], net)
        IN  /\ fe_opened' = fe_opened \o f.opened
            /\ fe_log' = Append(fe_log, LogEntry(f, IF f.result = "ok" THEN "none"
                                                    ELSE "logged"))
    /\ fe_idx' = fe_idx + 1
    /\ UNCHANGED <<fe_script, fe_cfg, fe_pc>>
    /\ UNCHANGED <<atlasVars, extractVars, validateVars, composeVars, runVars, tableVars>>

\* main() of the extractor, step 1, INPUT_FILE missing: safe_urlopen(URL);
\* except Exception prints the error and main() returns
FeExtractInput ==
    /\ fe_pc = "start"
    /\ fe_script = "htdebeer"
    /\ \E net \in NetOutcomes :
        LET f == Fetch(fe_cfg.url, net)
        IN  /\ fe_opened' = fe_opened \o f.opened
            /\ fe_log' = Append(fe_log, LogEntry(f, IF f.result = "ok" THEN "none"
                                                    ELSE "logged"))
            /\ fe_pc' = IF f.result = "ok" THEN "finished" ELSE "returned"
    /\ UNCHANGED <<fe_script, fe_cfg, fe_idx>>
    /\ UNCHANGED <<atlasVars, extractVars, validateVars, composeVars, runVars, tableVars>>

\* the loop over the items is over
FeFinish ==
    /\ fe_pc = "items"
    /\ fe_idx > Len(fe_cfg.items)
    /\ fe_pc' = "finished"
    /\ UNCHANGED <<fe_script, fe_cfg, fe_idx, fe_opened, fe_log>>
    /\ UNCHANGED <<atlasVars, extractVars, validateVars, composeVars, runVars, tableVars>>

NextFetch ==
    \/ FeCategoryPage
    \/ FeDownloadFile
    \/ FeDownloadSvgText
    \/ FeDownloadSvgContent
    \/ FeExtractInput
    \/ FeFinish

SpecFetch == InitFetch /\ [][NextFetch]_vars

(***************************************************************************)
(* Network claims                                                          *)
(***************************************************************************)

Secure(url) == UrlScheme(url) \in {HTTP, HTTPS}

\* the URLs of the fetches that were not refused
Accepted(log) ==
    LET kept == SelectSeq(log, LAMBDA e : e.result # "insecure_scheme")
    IN  [i \in 1..Len(kept) |-> kept[i].url]

C12_InsecureSchemeStopsScript ==
    \A i \in DOMAIN fe_log :
        fe_log[i].result = "insecure_scheme" =>
            /\ fe_log[i].handling = "propagated"
            /\ i = Len(fe_log)
            /\ fe_pc = "raised"

\* C13: a network failure of any fetch is caught and logged and the script goes
\* on: no network failure propagates as an exception, and a run never ends other
\* than normally because of one.
C13_NetworkFailureTolerated ==
    /\ \A i \in DOMAIN fe_log :
          fe_log[i].result = "network_error" => fe_log[i].handling = "logged"
    /\ fe_pc = "raised" => fe_log[Len(fe_log)].result # "network_error"

\* C13 restricted to the fetches made for the items of a loop: a failed fetch
\* is logged, the loop visits every item once, in order, and the run finishes.
C13_ItemFailureSkipsItem ==
    /\ \A i \in DOMAIN fe_log :
          (fe_log[i].result = "network_error" /\ fe_log[i].handling # "logged")
              => (i = 1 /\ fe_script \in {"atlasnye", "brescia"})
    /\ (fe_pc = "finished" /\ fe_script = "digitaldesignlabs") =>
          /\ Len(fe_log) = Len(fe_cfg.items)
          /\ \A i \in DOMAIN fe_log : fe_log[i].url = fe_cfg.url \o fe_cfg.items[i]
    /\ (fe_pc = "finished" /\ fe_script = "generate") =>
          /\ Len(fe_log) = Len(fe_cfg.items)
          /\ \A i \in DOMAIN fe_log : fe_log[i].url = fe_cfg.items[i]

(***************************************************************************)
(* More properties of the extractor, under SpecExtract                     *)
(***************************************************************************)

\* C14: when the source has no <defs> block the extraction is aborted: no
\* output document is written for any identifier, and once the missing block
\* has been detected no further card is attempted.
C14_MissingDefsAborts ==
    (ex_pc \in {"loop", "done"} /\ ex_source.defs = <<>>) =>
        /\ ex_fs.files = EmptyDir
        /\ Len(ExCardLog) <= 1

\* C14, the part about the files: without a <defs> block no output document is
\* written, and every card visited is reported with the missing-block error.
C14_MissingDefsWritesNothing ==
    (ex_pc \in {"loop", "done"} /\ ex_source.defs = <<>>) =>
        /\ ex_fs.files = EmptyDir
        /\ \A i \in DOMAIN ExCardLog : ExCardLog[i].step = "no_defs"
        /\ ex_pc = "done" => Len(ExCardLog) = Len(Targets)

(***************************************************************************)
(* More properties of the Atlasnye downloader, under SpecAtlas             *)
(***************************************************************************)

\* the names whose download succeeded
Downloaded == {fetched[i].name : i \in {k \in DOMAIN fetched : fetched[k].outcome = "ok"}}

NoDuplicates(seq) == \A i, j \in DOMAIN seq : seq[i] = seq[j] => i = j

\* C15, the state part: processed_files holds exactly the names whose download
\* succeeded; no download_file call is made for a name that was downloaded
\* before, so each name has at most one successful download; no link is listed
\* or fetched twice.
C15_Slots ==
    /\ processed_files = Downloaded
    /\ \A i, j \in DOMAIN fetched :
          (i < j /\ fetched[i].outcome = "ok") => fetched[j].name # fetched[i].name
    /\ NoDuplicates(file_links)
    /\ NoDuplicates([i \in DOMAIN fetched |-> fetched[i].link])

\* C15, one loop iteration: the identifier of the next link, and of no other,
\* is computed; when it is in processed_files nothing is fetched; a name enters
\* processed_files only as the name of a download_file call that succeeded.
C15_Step ==
    (atlas_pc = "loop" /\ link_idx' # link_idx) =>
        /\ link_idx' = link_idx + 1
        /\ filename' = AfterLast(file_links[link_idx], FileSep)
        /\ target_name' \in processed_files => fetched' = fetched
        /\ processed_files' # processed_files =>
              /\ Len(fetched') = Len(fetched) + 1
              /\ fetched'[Len(fetched')].outcome = "ok"
              /\ fetched'[Len(fetched')].link = file_links[link_idx]
              /\ processed_files' = processed_files \cup {fetched'[Len(fetched')].name}

\* C15: at most one source is downloaded into each identifier slot per run.
C15_OneSourcePerSlot == []C15_Slots /\ [][C15_Step]_vars

\* C15 witness: the king of hearts was downloaded from one source and a second
\* source classified as the king of hearts was passed over without a fetch
C15_Witness ==
    /\ atlas_pc = "loop"
    /\ target_name = "KH.svg"
    /\ "KH.svg" \in processed_files
    /\ fetched # <<>>
    /\ fetched[Len(fetched)].name = "KH.svg"
    /\ fetched[Len(fetched)].link # file_links[link_idx - 1]

\* "{n}B.svg" and "{n}J.svg"
BackId(n) == ToString(n) \o "B.svg"
JokerId(n) == ToString(n) \o "J.svg"

\* C20: the back and joker identifiers collected are contiguous from 1: when
\* "{n}B.svg" (or "{n}J.svg") is in processed_files, so is "{m}B.svg" (or
\* "{m}J.svg") for every 1 <= m < n.
C20_SlotsContiguous ==
    \A n \in 1..MaxLinks : \A m \in 1..(n - 1) :
        /\ BackId(n) \in processed_files => BackId(m) \in processed_files
        /\ JokerId(n) \in processed_files => JokerId(m) \in processed_files

\* C20 when every download succeeds: the identifiers are contiguous
C20_ContiguousWithoutFailures ==
    (\A i \in DOMAIN fetched : fetched[i].outcome = "ok") => C20_SlotsContiguous

(***************************************************************************)
(* Properties of get_viewbox, under SpecCompose                            *)
(***************************************************************************)

\* the viewBox attribute is exactly four numbers
UsableViewBox(root) ==
    LET parts == Split(strip(root.viewBox))
    IN  /\ root.viewBox # <<>>
        /\ Len(parts) = 4
        /\ \A k \in 1..4 : float(parts[k]) # <<>>

\* the width and height attributes are positive numbers, units aside
UsableSize(root) == IsPositive(parse_unit(root.width)) /\ IsPositive(parse_unit(root.height))

DefaultBox ==
    [min_x |-> RInt(0), min_y |-> RInt(0),
     w |-> RInt(FALLBACK_WIDTH), h |-> RInt(FALLBACK_HEIGHT)]

\* C18: for a source root with no usable viewBox (absent, or not exactly four
\* numbers) and no usable positive width and height, get_viewbox returns the
\* default box (0, 0, 200, 300) and does not fail, and compositing proceeds
\* with that box.
C18_UnusableBoxFallsBack ==
    (co_in.parses /\ ~UsableViewBox(co_in.root) /\ ~UsableSize(co_in.root)) =>
        /\ co_pc \in {"ready", "done"}
        /\ co_pc = "done" => co_out.src = DefaultBox

\* C18 for the roots whose viewBox is absent or does not split into four pieces
C18_NotFourPiecesFallsBack ==
    (/\ co_in.parses
     /\ co_in.root.viewBox = <<>> \/ Len(Split(strip(co_in.root.viewBox))) # 4
     /\ ~UsableSize(co_in.root)) =>
        /\ get_viewbox(co_in.root) = <<DefaultBox>>
        /\ co_pc \in {"ready", "done"}
        /\ co_pc = "done" => co_out.src = DefaultBox

\* C19: every box get_viewbox returns has strictly positive width and height,
\* so process_downloaded_svg never divides by zero.
C19_BoxAlwaysPositive ==
    /\ co_pc = "done" => IsPositive(co_out.src.w) /\ IsPositive(co_out.src.h)
    /\ co_pc # "ZeroDivisionError"

\* C19 for the boxes that do not come from a viewBox of four numbers
C19_BoxFromSizePositive ==
    (co_in.parses /\ ~UsableViewBox(co_in.root) /\ get_viewbox(co_in.root) # <<>>) =>
        /\ IsPositive(get_viewbox(co_in.root)[1].w)
        /\ IsPositive(get_viewbox(co_in.root)[1].h)
        /\ co_pc # "ZeroDivisionError"

(***************************************************************************)
(* SpecRuns: main() of generate_back_and_jokers_for_digitaldesignlabs.py   *)
(* and of download_digitaldesignlabs_cardset.py, one item per step         *)
(***************************************************************************)

\* the digitaldesignlabs downloader visits this many cards of the deck
MaxDdlCards == 2

NoFiles == [dirs |-> {}, files |-> [k \in {} |-> <<>>]]

\* os.makedirs(target_dir) when missing, then ElementTree.write(out_path)
WriteFile(fs, dir, name, doc) ==
    LET key == [dir |-> dir, name |-> name]
    IN  [dirs |-> fs.dirs \cup {dir},
         files |-> [k \in DOMAIN fs.files \cup {key} |-> IF k = key THEN doc ELSE fs.files[k]]]

\* ---- the generator

\* URLS, in order: folder key and filename
GenItems == <<[folder |-> "xl", filename |-> <<"1", "B", ".", "s", "v", "g">>], [folder |-> "xl", filename |-> <<"1", "J", ".", "s", "v", "g">>],
              [folder |-> "xl", filename |-> <<"2", "J", ".", "s", "v", "g">>], [folder |-> "sm", filename |-> <<"1", "B", ".", "s", "v", "g">>]>>

\* os.path.join(OUTPUT_DIR, folder_key)
GenDir(folder) == "digitaldesignlabs/" \o folder

GoodRoot == [viewBox |-> <<"0", " ", "0", " ", "4", " ", "2">>, width |-> <<>>, height |-> <<>>, children |-> SourceChildren]
FlatRoot == [viewBox |-> <<"0", " ", "0", " ", "0", " ", "2">>, width |-> <<>>, height |-> <<>>, children |-> SourceChildren]
WordRoot == [viewBox |-> <<"0", " ", "0", " ", "a", "b", "c", " ", "4">>, width |-> <<>>, height |-> <<>>, children |-> SourceChildren]

\* What download_svg_content returns: None ("none"), or a text.  Of a text the
\* model keeps whether it starts with "<?xml" and whether that declaration is
\* closed by "?>", whether the rest is well-formed, and the root it parses to.
GenContents ==
    {[kind |-> "none", decl |-> "absent", wellformed |-> FALSE, root |-> GoodRoot]}
    \cup {[kind |-> "text", decl |-> d, wellformed |-> FALSE, root |-> GoodRoot] :
            d \in {"absent", "closed", "open"}}
    \cup {[kind |-> "text", decl |-> d, wellformed |-> TRUE, root |-> r] :
            d \in {"absent", "closed"}, r \in {GoodRoot, FlatRoot, WordRoot}}

\* if content.strip().startswith('<?xml'): content = content.split('?>', 1)[1]
\* A sequence holding the text that is parsed, empty for IndexError.
strip_declaration(content) ==
    IF content.decl = "absent" THEN <<content>>
    ELSE IF content.decl = "closed" THEN <<[content EXCEPT !.decl = "absent"]>>
    ELSE <<>>

\* process_downloaded_svg from get_viewbox on: box is what get_viewbox returned
\* or the empty sequence for its ValueError
ComposeAndWrite(box, root, fname, target_dir, mode, fs) ==
    IF box = <<>>
    THEN [fs |-> fs, outcome |-> "ValueError"]
    ELSE IF box[1].w.n = 0 \/ box[1].h.n = 0
    THEN [fs |-> fs, outcome |-> "ZeroDivisionError"]
    ELSE [fs |-> WriteFile(fs, target_dir, fname,
                           process_downloaded_svg(root, fname, mode).doc),
          outcome |-> "saved"]

\* process_downloaded_svg(content, filename, target_dir, mode): the filesystem
\* afterwards and how the call ended
process_downloaded_svg_call(content, fname, target_dir, mode, fs) ==
    IF strip_declaration(content) = <<>>
    THEN [fs |-> fs, outcome |-> "IndexError"]
    ELSE IF ~strip_declaration(content)[1].wellformed
    THEN [fs |-> fs, outcome |-> "parse_error"]
    ELSE ComposeAndWrite(get_viewbox(content.root), content.root, fname, target_dir,
                         mode, fs)

\* generate_simple_joker(color, filename, target_dir)
generate_simple_joker(fname, target_dir, fs) ==
    LET letters == [i \in 1..5 |-> El("text", "", "", "ink", "ink", <<>>)]
        stretched == El("g", "", "", "", "", letters)
    IN  WriteFile(fs, target_dir, fname, card_document(stretched))

\* ---- the digitaldesignlabs downloader

SUIT_MAP == <<[char |-> "s", folder |-> "spades", upper |-> "S"],
              [char |-> "h", folder |-> "hearts", upper |-> "H"],
              [char |-> "d", folder |-> "diamonds", upper |-> "D"],
              [char |-> "c", folder |-> "clubs", upper |-> "C"]>>

\* ddl_ranks with RANKS[rank_id]
DDL_RANKS == <<[id |-> "1", code |-> "A"], [id |-> "2", code |-> "2"], [id |-> "3", code |-> "3"],
               [id |-> "4", code |-> "4"], [id |-> "5", code |-> "5"], [id |-> "6", code |-> "6"],
               [id |-> "7", code |-> "7"], [id |-> "8", code |-> "8"], [id |-> "9", code |-> "9"],
               [id |-> "10", code |-> "T"], [id |-> "j", code |-> "J"], [id |-> "q", code |-> "Q"],
               [id |-> "k", code |-> "K"]>>

\* get_target_filename(suit_char, rank_id), both always in the tables
get_target_filename(suit, rank) == rank.code \o suit.upper \o ".svg"

\* the cards main() visits, in order
DdlItems ==
    [i \in 1..(Len(SUIT_MAP) * Len(DDL_RANKS)) |->
        LET suit == SUIT_MAP[((i - 1) \div Len(DDL_RANKS)) + 1]
            rank == DDL_RANKS[((i - 1) % Len(DDL_RANKS)) + 1]
        IN  [src |-> rank.id \o suit.char \o ".svg", folder |-> suit.folder,
             tgt |-> get_target_filename(suit, rank)]]

\* SIZES: identifier (id or class) and output folder
SIZES == <<[key |-> "x-large", folder |-> "xl"], [key |-> "large", folder |-> "lg"],
           [key |-> "medium", folder |-> "md"], [key |-> "small", folder |-> "sm"],
           [key |-> "x-small", folder |-> "xs"], [key |-> "maxi-card", folder |-> "xl"],
           [key |-> "mini-card", folder |-> "sm"]>>

SizeKeys == {SIZES[i].key : i \in DOMAIN SIZES}
SizeFolder(key) == SIZES[CHOOSE i \in DOMAIN SIZES : SIZES[i].key = key].folder

\* child.tag.endswith('g'), for the tags of the model
EndsWithG(tag) == tag \in {"g", "svg"}

\* root.iter(): the element, then its descendants, in document order
RECURSIVE IterAll(_)
IterAll(elements) ==
    IF elements = <<>> THEN <<>>
    ELSE <<Head(elements)>> \o IterAll(Head(elements).children) \o IterAll(Tail(elements))

\* the key under which process_and_save files an element in available_groups,
\* "" when it files it under none
GroupKey(el) ==
    IF ~EndsWithG(el.tag) THEN ""
    ELSE IF el.id \in SizeKeys THEN el.id
    ELSE IF el.cls \in SizeKeys THEN el.cls
    ELSE ""

\* available_groups: its keys in insertion order, and the element of a key
RECURSIVE Distinct(_)
Distinct(seq) ==
    IF seq = <<>> THEN <<>>
    ELSE LET init == Distinct(SubSeq(seq, 1, Len(seq) - 1))
             last == seq[Len(seq)]
         IN  IF \E i \in DOMAIN init : init[i] = last THEN init ELSE Append(init, last)

GroupKeys(root) ==
    LET all == IterAll(<<root>>)
        keyed == SelectSeq(all, LAMBDA el : GroupKey(el) # "")
    IN  Distinct([i \in DOMAIN keyed |-> GroupKey(keyed[i])])

GroupOf(root, key) ==
    LET keyed == SelectSeq(IterAll(<<root>>), LAMBDA el : GroupKey(el) = key)
    IN  keyed[Len(keyed)]

\* for parent in new_root.iter(): remove the children whose tag ends in "style"
RECURSIVE RemoveStyle(_)
RemoveStyle(elements) ==
    LET kept == SelectSeq(elements, LAMBDA el : el.tag # "style")
    IN  [i \in DOMAIN kept |-> [kept[i] EXCEPT !.children = RemoveStyle(@)]]

\* the first child of root whose tag ends in "defs", as a sequence
FirstDefs(root) ==
    LET defs == SelectSeq(root.children, LAMBDA el : IsDefsTag(el.tag))
    IN  IF defs = <<>> THEN <<>> ELSE <<defs[1]>>

\* save_variant(root_node, subfolder, filename, ...): the background is
\* inserted first, the border appended, the document written
save_variant(children, subfolder, fname, fs) ==
    LET background == El("rect", "", "", "#fefefe", "", <<>>)
        border == El("rect", "", "", "none", "black", <<>>)
    IN  WriteFile(fs, "digitaldesignlabs/" \o subfolder, fname,
                  <<background>> \o children \o <<border>>)

\* for identifier, group_node in available_groups.items(): ... save_variant
RECURSIVE SaveVariants(_, _, _, _)
SaveVariants(root, keys, fname, fs) ==
    IF keys = <<>> THEN fs
    ELSE LET new_children == RemoveStyle(FirstDefs(root)) \o <<GroupOf(root, Head(keys))>>
         IN  SaveVariants(root, Tail(keys), fname,
                          save_variant(new_children, SizeFolder(Head(keys)), fname, fs))

\* viewBox.split(): the pieces between runs of white space, none of them empty
RECURSIVE SplitSpaces(_, _, _)
SplitSpaces(s, i, piece) ==
    IF i > Len(s) THEN (IF piece = <<>> THEN <<>> ELSE <<piece>>)
    ELSE IF IsSpace(s[i])
    THEN (IF piece = <<>> THEN <<>> ELSE <<piece>>) \o SplitSpaces(s, i + 1, <<>>)
    ELSE SplitSpaces(s, i + 1, Append(piece, s[i]))

split(text) == SplitSpaces(text, 1, <<>>)

\* _, _, width, height = map(float, viewBox.split()) raises ValueError
BadViewBox(text) ==
    \/ Len(split(text)) # 4
    \/ \E k \in DOMAIN split(text) : float(split(text)[k]) = <<>>

\* process_and_save(svg_text, target_filename)
process_and_save(content, target_filename, fs) ==
    IF ~content.wellformed
    THEN [fs |-> fs, outcome |-> "parse_error"]
    ELSE IF content.root.viewBox = <<>>
    THEN [fs |-> fs, outcome |-> "no_viewbox"]
    ELSE IF BadViewBox(content.root.viewBox)
    THEN [fs |-> fs, outcome |-> "ValueError"]
    ELSE IF GroupKeys(content.root) = <<>>
    THEN [fs |-> save_variant(content.root.children, "xl", target_filename, fs),
          outcome |-> "saved"]
    ELSE [fs |-> SaveVariants(content.root, GroupKeys(content.root), target_filename, fs),
          outcome |-> "saved"]

Svg(viewBox, id, children) ==
    [tag |-> "svg", id |-> id, cls |-> "", fill |-> "", stroke |-> "", children |-> children,
     viewBox |-> viewBox]

G(id, cls, children) == El("g", id, cls, "", "", children)

\* source documents of the downloader: without size groups; with groups by id
\* and by class, a <defs> and <style> elements; with a size id on the root;
\* without viewBox; with a viewBox of three numbers
DdlRoots ==
    {Svg(<<"0", " ", "0", " ", "1", "0", " ", "2", "0">>, "", <<El("style", "", "", "", "", <<>>), G("", "", <<>>),
                        El("path", "", "", "black", "", <<>>)>>),
     Svg(<<"0", " ", "0", " ", "1", "0", " ", "2", "0">>, "", <<El("defs", "", "", "", "", <<El("style", "", "", "", "", <<>>),
                                                     G("small", "", <<>>)>>),
                        El("style", "", "", "", "", <<>>),
                        G("x-large", "", <<El("style", "", "", "", "", <<>>)>>),
                        G("", "mini-card", <<>>), G("", "maxi-card", <<>>)>>),
     Svg(<<"0", " ", "0", " ", "1", "0", " ", "2", "0">>, "large", <<G("zz", "", <<>>)>>),
     Svg(<<>>, "", <<G("", "", <<>>)>>),
     Svg(<<"0", " ", "0", " ", "5">>, "", <<G("", "", <<>>)>>)}

\* what download_svg_text returns: None or empty ("none"), or a text
DdlContents ==
    {[kind |-> "none", wellformed |-> FALSE, root |-> Svg(<<>>, "", <<>>)],
     [kind |-> "text", wellformed |-> FALSE, root |-> Svg(<<>>, "", <<>>)]}
    \cup {[kind |-> "text", wellformed |-> TRUE, root |-> r] : r \in DdlRoots}

\* ---- the two main() functions

ContentClass(content) ==
    IF content.kind = "none" THEN "none"
    ELSE IF ~content.wellformed THEN "malformed"
    ELSE "svg"

Raised(outcome) == outcome \in {"IndexError", "ValueError", "ZeroDivisionError"}

InitRuns ==
    /\ AtlasIdle /\ ExtractIdle /\ ValidateIdle /\ ComposeIdle /\ FetchIdle /\ TableIdle
    /\ rn_script \in {"generate", "digitaldesignlabs"}
    /\ rn_pc = IF rn_script = "generate" THEN "loop" ELSE "start"
    /\ rn_idx = 1
    /\ rn_fs = NoFiles
    /\ rn_log = <<>>

\* generator, one entry of URLS: content = download_svg_content(url);
\* if content: process_downloaded_svg(content, filename, target_dir, mode)
RnDownloadedCard ==
    /\ rn_script = "generate"
    /\ rn_pc = "loop"
    /\ rn_idx <= Len(GenItems)
    /\ \E content \in GenContents :
      \E item \in {GenItems[rn_idx]} :
      \E mode \in {IF is_joker_filename(item.filename) THEN "cover" ELSE "contain"} :
      \E r \in {IF content.kind = "none"
                 THEN [fs |-> rn_fs, outcome |-> "download_failed"]
                 ELSE process_downloaded_svg_call(content, item.filename,
                                                  GenDir(item.folder), mode, rn_fs)} :
            /\ rn_fs' = r.fs
            /\ rn_log' = Append(rn_log, [item |-> rn_idx, kind |-> ContentClass(content),
                                         outcome |-> r.outcome])
            /\ rn_pc' = IF Raised(r.outcome) THEN "raised" ELSE "loop"
            /\ rn_idx' = IF Raised(r.outcome) THEN rn_idx ELSE rn_idx + 1
    /\ UNCHANGED rn_script
    /\ UNCHANGED <<atlasVars, extractVars, validateVars, composeVars, fetchVars, tableVars>>

\* generator, after the loop: the two generated jokers of sm/
RnSimpleJokers ==
    /\ rn_script = "generate"
    /\ rn_pc = "loop"
    /\ rn_idx > Len(GenItems)
    /\ rn_fs' = generate_simple_joker(<<"2", "J", ".", "s", "v", "g">>, GenDir("sm"),
                    generate_simple_joker(<<"1", "J", ".", "s", "v", "g">>, GenDir("sm"), rn_fs))
    /\ rn_pc' = "done"
    /\ UNCHANGED <<rn_script, rn_idx, rn_log>>
    /\ UNCHANGED <<atlasVars, extractVars, validateVars, composeVars, fetchVars, tableVars>>

\* downloader: if not os.path.exists(OUTPUT_DIR): os.makedirs(OUTPUT_DIR)
RnDdlStart ==
    /\ rn_script = "digitaldesignlabs"
    /\ rn_pc = "start"
    /\ rn_fs' = [rn_fs EXCEPT !.dirs = @ \cup {"digitaldesignlabs"}]
    /\ rn_pc' = "loop"
    /\ UNCHANGED <<rn_script, rn_idx, rn_log>>
    /\ UNCHANGED <<atlasVars, extractVars, validateVars, composeVars, fetchVars, tableVars>>

\* downloader, one card: txt = download_svg_text(url); if txt: process_and_save(txt, tgt)
RnDdlCard ==
    /\ rn_script = "digitaldesignlabs"
    /\ rn_pc = "loop"
    /\ rn_idx <= MaxDdlCards
    /\ \E content \in DdlContents :
      \E r \in {IF content.kind = "none"
                 THEN [fs |-> rn_fs, outcome |-> "download_failed"]
                 ELSE process_and_save(content, DdlItems[rn_idx].tgt, rn_fs)} :
            /\ rn_fs' = r.fs
            /\ rn_log' = Append(rn_log, [item |-> rn_idx, kind |-> ContentClass(content),
                                         outcome |-> r.outcome])
            /\ rn_pc' = IF Raised(r.outcome) THEN "raised" ELSE "loop"
            /\ rn_idx' = IF Raised(r.outcome) THEN rn_idx ELSE rn_idx + 1
    /\ UNCHANGED rn_script
    /\ UNCHANGED <<atlasVars, extractVars, validateVars, composeVars, fetchVars, tableVars>>

\* downloader, after the loop: "Extraction complete."
RnDdlFinish ==
    /\ rn_script = "digitaldesignlabs"
    /\ rn_pc = "loop"
    /\ rn_idx > MaxDdlCards
    /\ rn_pc' = "done"
    /\ UNCHANGED <<rn_script, rn_idx, rn_fs, rn_log>>
    /\ UNCHANGED <<atlasVars, extractVars, validateVars, composeVars, fetchVars, tableVars>>

NextRuns == RnDownloadedCard \/ RnSimpleJokers \/ RnDdlStart \/ RnDdlCard \/ RnDdlFinish

SpecRuns == InitRuns /\ [][NextRuns]_vars

(***************************************************************************)
(* Run claims                                                              *)
(***************************************************************************)

IsBackground(el) == el.tag = "rect" /\ el.fill = "#fefefe"
IsBorder(el) == el.tag = "rect" /\ el.fill = "none" /\ el.stroke # ""

\* the children of a written root are in back-to-front order: only <defs>
\* before the background, everything else after it, the border last
BackToFront(doc) ==
    /\ Len(doc) >= 2
    /\ IsBorder(doc[Len(doc)])
    /\ \E b \in 1..(Len(doc) - 1) :
        /\ IsBackground(doc[b])
        /\ \A i \in 1..(b - 1) : IsDefsTag(doc[i].tag)

\* C16: in every document the generator or the downloader has written, the
\* background rect comes before the content (only <defs> may precede it) and
\* the stroke-only border rect is the last child of the root
C16_BackToFront == \A k \in DOMAIN rn_fs.files : BackToFront(rn_fs.files[k])

\* the generator has finished with the downloaded back in xl/ and both
\* generated jokers in sm/, each with content between background and border
C16_Witness ==
    /\ rn_script = "generate"
    /\ rn_pc = "done"
    /\ {[dir |-> GenDir("xl"), name |-> <<"1", "B", ".", "s", "v", "g">>], [dir |-> GenDir("sm"), name |-> <<"1", "J", ".", "s", "v", "g">>],
        [dir |-> GenDir("sm"), name |-> <<"2", "J", ".", "s", "v", "g">>]} \subseteq DOMAIN rn_fs.files
    /\ \A k \in DOMAIN rn_fs.files :
        \E i \in DOMAIN rn_fs.files[k] : rn_fs.files[k][i].tag = "g"

\* C17: every card whose source text is malformed ends in a reported parse
\* error (and so is skipped with the run going on)
C17_MalformedIsSkipped ==
    \A i \in DOMAIN rn_log : rn_log[i].kind = "malformed" => rn_log[i].outcome = "parse_error"

\* C17, the part the code keeps: a card that ends in a reported parse error
\* leaves directories and files as they were, and the run goes on with the
\* next card
C17_Step ==
    (/\ Len(rn_log') = Len(rn_log) + 1
     /\ rn_log'[Len(rn_log')].outcome = "parse_error")
    => (rn_fs' = rn_fs /\ rn_pc' = "loop" /\ rn_idx' = rn_idx + 1)

C17_ParseErrorWritesNothing == [][C17_Step]_vars

\* a run of the downloader that met a parse error and saved a later card
C17_ParseErrorThenSaved ==
    \E i, j \in DOMAIN rn_log :
        i < j /\ rn_log[i].outcome = "parse_error" /\ rn_log[j].outcome = "saved"

(***************************************************************************)
(* SpecTable: DeckTableParser of download_brescia_cardset.py, one parser   *)
(* event (start tag, end tag or text) per step                             *)
(***************************************************************************)

\* SUIT_MAP of download_brescia_cardset.py, in insertion order
SUIT_MAP_Brescia == <<
    [key |-> <<"S", "w", "o", "r", "d", "s">>, code |-> "S"],
    [key |-> <<"S", "p", "a", "d", "e">>, code |-> "S"],
    [key |-> <<"C", "u", "p", "s">>, code |-> "H"],
    [key |-> <<"C", "o", "p", "p", "e">>, code |-> "H"],
    [key |-> <<"C", "o", "i", "n", "s">>, code |-> "D"],
    [key |-> <<"D", "e", "n", "a", "r", "i">>, code |-> "D"],
    [key |-> <<"C", "l", "u", "b", "s">>, code |-> "C"],
    [key |-> <<"B", "a", "s", "t", "o", "n", "i">>, code |-> "C"],
    [key |-> <<"B", "a", "t", "o", "n", "s">>, code |-> "C"]>>

COLUMN_RANK_MAP == <<"A", "K", "Q", "J", "T", "9", "8", "7", "6", "5", "4", "3", "2">>

\* at most this many <td> are fed per row
MaxCells == 14
\* at most this many tables are open at once in the text fed
MaxOpenTables == 1
\* the text fed ends when this many cards are recorded
MaxCards == 1

\* an attribute of a start tag: absent, present without a value (None), or
\* present with a text
Absent == [present |-> FALSE, valued |-> FALSE, text |-> <<>>]
Valueless == [present |-> TRUE, valued |-> FALSE, text |-> <<>>]
Attr(text) == [present |-> TRUE, valued |-> TRUE, text |-> text]

NoAttrs == [class |-> Absent, href |-> Absent]

NoCards == [k \in {} |-> <<>>]

\* DeckTableParser.__init__
DeckTableParser ==
    [in_table |-> FALSE, in_row |-> FALSE, in_cell |-> FALSE, current_suit |-> None,
     col_index |-> -1, cards_found |-> NoCards]

\* attrs.get('class', '') is None and "'wikitable' in None" raises TypeError
RaisesTypeError(tag, attrs) == tag = "table" /\ attrs.class.present /\ ~attrs.class.valued

\* 'wikitable' in attrs.get('class', '')
IsWikitable(attrs) == Contains(attrs.class.text, <<"w", "i", "k", "i", "t", "a", "b", "l", "e">>)

\* if tag == 'table': if 'wikitable' in attrs.get('class', ''): self.in_table = True
start_table(self, tag, attrs) ==
    IF tag = "table" /\ IsWikitable(attrs) THEN [self EXCEPT !.in_table = TRUE] ELSE self

\* if self.in_table and tag == 'tr': ...
start_row(self, tag) ==
    IF self.in_table /\ tag = "tr"
    THEN [self EXCEPT !.in_row = TRUE, !.col_index = -1, !.current_suit = None]
    ELSE self

\* if self.in_row and (tag == 'td' or tag == 'th'): ...
start_cell(self, tag) ==
    IF self.in_row /\ tag \in {"td", "th"}
    THEN [self EXCEPT !.in_cell = TRUE, !.col_index = IF tag = "td" THEN @ + 1 ELSE @]
    ELSE self

\* href and 'File:' in href and href.endswith('.svg')
IsFileLink(attrs) ==
    /\ attrs.href.valued
    /\ attrs.href.text # <<>>
    /\ Contains(attrs.href.text, <<"F", "i", "l", "e", ":">>)
    /\ EndsWith(attrs.href.text, <<".", "s", "v", "g">>)

\* the key under which a start tag stores its href in cards_found, "" when it
\* stores nothing
LinkTarget(self, tag, attrs) ==
    IF /\ self.in_cell
       /\ tag = "a"
       /\ IsFileLink(attrs)
       /\ self.current_suit # None
       /\ 0 <= self.col_index
       /\ self.col_index < Len(COLUMN_RANK_MAP)
    THEN COLUMN_RANK_MAP[self.col_index + 1] \o self.current_suit \o ".svg"
    ELSE ""

\* self.cards_found[filename] = href
start_link(self, tag, attrs) ==
    IF LinkTarget(self, tag, attrs) = "" THEN self
    ELSE [self EXCEPT !.cards_found =
            [k \in DOMAIN @ \cup {LinkTarget(self, tag, attrs)} |->
                IF k = LinkTarget(self, tag, attrs) THEN attrs.href.text ELSE @[k]]]

\* handle_starttag(self, tag, attrs), for attrs that raise no TypeError
handle_starttag(self, tag, attrs) ==
    start_link(start_cell(start_row(start_table(self, tag, attrs), tag), tag), tag, attrs)

\* handle_endtag(self, tag)
handle_endtag(self, tag) ==
    [self EXCEPT !.in_table = IF tag = "table" THEN FALSE ELSE @,
                 !.in_row = IF tag = "tr" THEN FALSE ELSE @,
                 !.in_cell = IF tag \in {"td", "th"} THEN FALSE ELSE @]

\* for key, code in SUIT_MAP.items(): if key.lower() in text.lower(): current_suit = code
RECURSIVE ScanSuits(_, _, _)
ScanSuits(suit, text, k) ==
    IF k > Len(SUIT_MAP_Brescia) THEN suit
    ELSE ScanSuits(IF Contains(lower(text), lower(SUIT_MAP_Brescia[k].key))
                   THEN SUIT_MAP_Brescia[k].code ELSE suit,
                   text, k + 1)

\* handle_data(self, data)
handle_data(self, data) ==
    IF self.in_cell /\ strip(data) # <<>>
    THEN [self EXCEPT !.current_suit = ScanSuits(@, strip(data), 1)]
    ELSE self

\* ---- what the events fed so far amount to, from the events alone:
\* tables   the open tables, TRUE for a wikitable (start tag pushes, end tag pops)
\* row      a <tr> was fed and no </tr> since
\* cell     a <td> or <th> was fed and no </td> or </th> since
\* labelled a text with a suit label was fed since the last <tr>
\* tds      the number of <td> fed since the last <tr>
\* stored   the key the last event stored in cards_found, "" if it stored none
NothingSeen ==
    [tables |-> <<>>, row |-> FALSE, cell |-> FALSE, labelled |-> FALSE, tds |-> 0, stored |-> ""]

SeenStart(seen, tag, attrs, stored) ==
    [tables |-> IF tag = "table" THEN Append(seen.tables, IsWikitable(attrs)) ELSE seen.tables,
     row |-> (tag = "tr") \/ seen.row,
     cell |-> (tag \in {"td", "th"}) \/ seen.cell,
     labelled |-> (tag # "tr") /\ seen.labelled,
     tds |-> IF tag = "tr" THEN 0 ELSE IF tag = "td" THEN seen.tds + 1 ELSE seen.tds,
     stored |-> stored]

SeenEnd(seen, tag) ==
    [seen EXCEPT !.tables = IF tag = "table" /\ @ # <<>> THEN SubSeq(@, 1, Len(@) - 1) ELSE @,
                 !.row = (tag # "tr") /\ @,
                 !.cell = (tag \notin {"td", "th"}) /\ @,
                 !.stored = ""]

SeenData(seen, data) ==
    [seen EXCEPT !.labelled = @ \/ ScanSuits(None, strip(data), 1) # None,
                 !.stored = ""]

\* ---- the events fed

\* feed() has more text to work on
Feeding == tb_pc = "feeding" /\ Cardinality(DOMAIN parser.cards_found) < MaxCards

\* class attributes of the <table> tags fed
TableClasses == {Absent, Attr(<<"w", "i", "k", "i", "t", "a", "b", "l", "e">>), Attr(<<"s", "o", "r", "t", "a", "b", "l", "e", " ", "w", "i", "k", "i", "t", "a", "b", "l", "e">>), Attr(<<"n", "a", "v", "b", "o", "x">>)}

\* href attributes of the <a> tags fed
Hrefs == {Absent, Valueless, Attr(<<"/", "w", "i", "k", "i", "/", "F", "i", "l", "e", ":", "A", ".", "s", "v", "g">>), Attr(<<"/", "w", "i", "k", "i", "/", "F", "i", "l", "e", ":", "A", ".", "p", "n", "g">>), Attr(<<"/", "w", "i", "k", "i", "/", "A", ".", "s", "v", "g">>)}

\* the start tags fed, with their attributes
StartTags ==
    {[tag |-> "table", attrs |-> [class |-> c, href |-> Absent]] : c \in TableClasses}
    \cup {[tag |-> g, attrs |-> NoAttrs] : g \in {"tr", "td", "th", "span"}}
    \cup {[tag |-> "a", attrs |-> [class |-> Absent, href |-> h]] : h \in Hrefs}

EndTags == {"table", "tr", "td", "th", "a"}

\* the texts fed: white space, suit labels in either case, two labels, no label
Texts == {<<" ">>, <<"S", "w", "o", "r", "d", "s">>, <<" ", "d", "i", " ", "c", "o", "p", "p", "e", " ">>, <<"S", "p", "a", "d", "e", " ", "C", "o", "p", "p", "e">>, <<"R", "e">>}

InitTable ==
    /\ AtlasIdle /\ ExtractIdle /\ ValidateIdle /\ ComposeIdle /\ FetchIdle /\ RunIdle
    /\ parser = DeckTableParser
    /\ tb_pc = "feeding"
    /\ tb_seen = NothingSeen

\* feed(): a start tag
TbStartTag ==
    /\ Feeding
    /\ \E st \in StartTags :
        /\ ~RaisesTypeError(st.tag, st.attrs)
        /\ st.tag = "table" => Len(tb_seen.tables) < MaxOpenTables
        /\ st.tag = "td" => tb_seen.tds < MaxCells /\ parser.col_index < MaxCells
        /\ \E after \in {handle_starttag(parser, st.tag, st.attrs)} :
            /\ parser' = after
            /\ tb_seen' = SeenStart(tb_seen, st.tag, st.attrs,
                                    LinkTarget(parser, st.tag, st.attrs))
    /\ UNCHANGED tb_pc
    /\ UNCHANGED <<atlasVars, extractVars, validateVars, composeVars, fetchVars, runVars>>

\* feed(): <table class> without a value, handle_starttag raises TypeError
TbTypeError ==
    /\ Feeding
    /\ RaisesTypeError("table", [class |-> Valueless, href |-> Absent])
    /\ tb_pc' = "raised"
    /\ UNCHANGED <<parser, tb_seen>>
    /\ UNCHANGED <<atlasVars, extractVars, validateVars, composeVars, fetchVars, runVars>>

\* feed(): an end tag
TbEndTag ==
    /\ Feeding
    /\ \E tag \in EndTags :
        /\ parser' = handle_endtag(parser, tag)
        /\ tb_seen' = SeenEnd(tb_seen, tag)
    /\ UNCHANGED tb_pc
    /\ UNCHANGED <<atlasVars, extractVars, validateVars, composeVars, fetchVars, runVars>>

\* feed(): a text
TbData ==
    /\ Feeding
    /\ \E data \in Texts :
        /\ parser' = handle_data(parser, data)
        /\ tb_seen' = SeenData(tb_seen, data)
    /\ UNCHANGED tb_pc
    /\ UNCHANGED <<atlasVars, extractVars, validateVars, composeVars, fetchVars, runVars>>

NextTable == TbStartTag \/ TbTypeError \/ TbEndTag \/ TbData

SpecTable == InitTable /\ [][NextTable]_vars

(***************************************************************************)
(* Table parser claims                                                     *)
(***************************************************************************)

InsideWikitableCell ==
    /\ \E i \in DOMAIN tb_seen.tables : tb_seen.tables[i]
    /\ tb_seen.row
    /\ tb_seen.cell

\* C21: whenever a start tag stores a card link, the events fed so far have an
\* open wikitable, an open row and an open cell, a suit label since the last
\* <tr>, and the key stored is COLUMN_RANK_MAP[i] + suit + ".svg" with i + 1
\* the number of <td> since the last <tr>, i < 13
C21_RecordedInsideLabelledRow ==
    tb_seen.stored # "" =>
        /\ InsideWikitableCell
        /\ tb_seen.labelled
        /\ tb_seen.tds \in 1..Len(COLUMN_RANK_MAP)
        /\ tb_seen.stored = COLUMN_RANK_MAP[tb_seen.tds] \o parser.current_suit \o ".svg"

\* C21, the part the code keeps: a card link is stored only while the parser's
\* in_cell flag and current_suit are set and col_index is within 0..12, under
\* the key COLUMN_RANK_MAP[col_index] + current_suit + ".svg"
C21_RecordedByFlags ==
    tb_seen.stored # "" =>
        /\ parser.in_cell
        /\ parser.current_suit # None
        /\ parser.col_index \in 0..(Len(COLUMN_RANK_MAP) - 1)
        /\ tb_seen.stored
            = COLUMN_RANK_MAP[parser.col_index + 1] \o parser.current_suit \o ".svg"
        /\ tb_seen.stored \in DOMAIN parser.cards_found

\* a file link fed in a labelled row's cell of index 13 was not stored
C21_IndexThirteenFed ==
    /\ parser.col_index = Len(COLUMN_RANK_MAP)
    /\ parser.in_cell /\ parser.current_suit # None
    /\ parser.cards_found = NoCards

\* a card stored inside a labelled row of a wikitable
C21_StoredInsideTable ==
    /\ tb_seen.stored # ""
    /\ InsideWikitableCell /\ tb_seen.labelled

====
